---- MODULE Spec2Model ----
(***************************************************************************)
(* Model of loggerhead's history_db: the persistent incremental merge-sort  *)
(* indexer (Importer, _IncrementalMergeSort, Querier).                      *)
(*                                                                          *)
(* Revision identifiers are the integers 1..Len(g) of a parent graph g,     *)
(* g[r] being the ordered parent list of r.  A parent identifier outside    *)
(* DOMAIN g is a ghost (the repository has no parent-map entry for it).     *)
(* Dotted revnos are sequences of naturals; the revno column of the store   *)
(* holds their textual form, a sequence of digits and "." separators.       *)
(***************************************************************************)
EXTENDS Integers, Sequences, FiniteSets, TLC

(***************************************************************************)
(* Generic helpers                                                          *)
(***************************************************************************)
None == -1

Last(s) == s[Len(s)]

Front(s) == SubSeq(s, 1, Len(s) - 1)

Reverse(s) == [i \in 1..Len(s) |-> s[Len(s) + 1 - i]]

Range(s) == {s[i] : i \in 1..Len(s)}

RECURSIVE SetToSeq(_)
SetToSeq(S) ==
    IF S = {} THEN <<>>
    ELSE LET m == CHOOSE x \in S : \A y \in S : x <= y
         IN  <<m>> \o SetToSeq(S \ {m})

SelectSeqIn(s, S) == SelectSeq(s, LAMBDA x : x \in S)

Max(a, b) == IF a >= b THEN a ELSE b

Get(f, k, default) == IF k \in DOMAIN f THEN f[k] ELSE default

Put(f, k, v) == [x \in DOMAIN f \cup {k} |-> IF x = k THEN v ELSE f[x]]

(***************************************************************************)
(* The repository oracle: parent graphs                                     *)
(***************************************************************************)
NULL_REVISION == 0

RevIds(g) == 1..Len(g)

IsGhost(g, r) == r \notin RevIds(g)

\* repository.get_parent_map([r]): the key is omitted for a ghost
HasParentMap(g, r) == r \in RevIds(g)

RECURSIVE Ancestry(_, _)
Ancestry(g, r) ==
    IF IsGhost(g, r) THEN {}
    ELSE {r} \cup UNION {Ancestry(g, g[r][i]) : i \in 1..Len(g[r])}

(***************************************************************************)
(* Reference merge sort (KnownGraph.merge_sort, used at                     *)
(* Importer._get_merge_sorted_tip for the non-incremental import and the    *)
(* validation).  Nodes are emitted tip first.                               *)
(***************************************************************************)
MSInit(g, tip) ==
    [stack |-> <<>>, remaining |-> RevIds(g), completed |-> {},
     revno |-> [r \in {} |-> <<>>], firstFree |-> RevIds(g),
     count |-> [b \in {} |-> 0], scheduled |-> <<>>]

\* push_node: the first-child flag of the left-hand parent is taken at push
MSPush(g, s, name, depth) ==
    LET parents == g[name]
        hasLh == parents # <<>> /\ ~IsGhost(g, parents[1])
        first == IF hasLh THEN parents[1] \in s.firstFree ELSE FALSE
    IN  [s EXCEPT !.stack = Append(@, [name |-> name, depth |-> depth,
                                       pending |-> parents,
                                       leftPushed |-> FALSE,
                                       first |-> first]),
                  !.remaining = @ \ {name},
                  !.firstFree = IF hasLh THEN @ \ {parents[1]} ELSE @]

\* pop_node: allocate the revno
MSPop(g, s) ==
    LET top == Last(s.stack)
        parents == g[top.name]
        hasLh == parents # <<>> /\ ~IsGhost(g, parents[1])
        prev == IF hasLh THEN s.revno[parents[1]] ELSE <<>>
        base == IF hasLh THEN prev[1] ELSE 0
        bc == Get(s.count, base, 0) + 1
        rc == Get(s.count, 0, -1) + 1
        revno == IF hasLh
                 THEN IF top.first
                      THEN Front(prev) \o <<Last(prev) + 1>>
                      ELSE <<base, bc, 1>>
                 ELSE IF rc # 0 THEN <<0, rc, 1>> ELSE <<1>>
        count == IF hasLh
                 THEN IF top.first THEN s.count ELSE Put(s.count, base, bc)
                 ELSE Put(s.count, 0, rc)
    IN  [s EXCEPT !.stack = Front(@),
                  !.revno = Put(@, top.name, revno),
                  !.count = count,
                  !.completed = @ \cup {top.name},
                  !.scheduled = Append(@, [key |-> top.name,
                                           merge_depth |-> top.depth,
                                           revno |-> revno])]

\* one turn of the inner loop: take the next pending parent of the top node
MSVisit(g, s) ==
    LET n == Len(s.stack)
        top == s.stack[n]
        isLeft == ~top.leftPushed
        next == IF isLeft THEN Head(top.pending) ELSE Last(top.pending)
        rest == IF isLeft THEN Tail(top.pending) ELSE Front(top.pending)
        s1 == [s EXCEPT !.stack[n].pending = rest,
                        !.stack[n].leftPushed = TRUE]
    IN  IF next \in s.completed \/ next \notin s.remaining
        THEN s1
        ELSE MSPush(g, s1, next, top.depth + (IF isLeft THEN 0 ELSE 1))

RECURSIVE MSLoop(_, _)
MSLoop(g, s) ==
    IF s.stack = <<>> THEN s
    ELSE IF Last(s.stack).pending = <<>>
         THEN MSLoop(g, MSPop(g, s))
         ELSE MSLoop(g, MSVisit(g, s))

\* end_of_merge of the node at position i of the scheduled list (oldest
\* first); the node that follows it in the output is at position i - 1
MSEndOfMerge(g, sched, i) ==
    \/ i = 1
    \/ sched[i - 1].merge_depth < sched[i].merge_depth
    \/ /\ sched[i - 1].merge_depth = sched[i].merge_depth
       /\ sched[i - 1].key \notin Range(g[sched[i].key])

MergeSort(g, tip) ==
    IF tip = NULL_REVISION \/ IsGhost(g, tip) THEN <<>>
    ELSE LET Emit(sched) ==
                 [i \in 1..Len(sched) |->
                    [key |-> sched[Len(sched) + 1 - i].key,
                     merge_depth |-> sched[Len(sched) + 1 - i].merge_depth,
                     revno |-> sched[Len(sched) + 1 - i].revno,
                     end_of_merge |->
                         MSEndOfMerge(g, sched, Len(sched) + 1 - i)]]
         IN  Emit(MSLoop(g, MSPush(g, MSInit(g, tip), tip, 0)).scheduled)

(***************************************************************************)
(* The store.  revision and mainline_parent_range are sequences: the        *)
(* position of a row is its integer primary key (db_id, pkey).              *)
(***************************************************************************)
EmptyDb ==
    [revision |-> <<>>, ghost |-> {}, parent |-> {}, dotted_revno |-> {},
     mainline_parent_range |-> <<>>, mainline_parent |-> {}]

\* SELECT db_id FROM revision WHERE revision_id = ?
GetDbId(db, rev_id) ==
    IF \E i \in 1..Len(db.revision) : db.revision[i].revision_id = rev_id
    THEN CHOOSE i \in 1..Len(db.revision) : db.revision[i].revision_id = rev_id
    ELSE None

RevIdOf(db, db_id) == db.revision[db_id].revision_id

GdfoOf(db, db_id) == db.revision[db_id].gdfo

\* INSERT INTO revision (revision_id, gdfo) VALUES (?, ?)
InsertRevision(db, rev_id, gdfo) ==
    [db EXCEPT !.revision = Append(@, [revision_id |-> rev_id, gdfo |-> gdfo])]

\* INSERT INTO ghost (db_id) SELECT db_id FROM revision WHERE revision_id = ?
InsertGhost(db, rev_id) ==
    [db EXCEPT !.ghost = @ \cup {GetDbId(db, rev_id)}]

\* SELECT parent FROM parent WHERE child = ? ORDER BY parent_idx
ParentIdxs(db, child) == {e[3] : e \in {x \in db.parent : x[1] = child}}

GetParents(db, child) ==
    LET idxs == SetToSeq(ParentIdxs(db, child))
    IN  [i \in 1..Len(idxs) |->
            (CHOOSE e \in db.parent : e[1] = child /\ e[3] = idxs[i])[2]]

\* Importer._get_lh_parent_db_id / Querier._get_lh_parent_db_id
GetLhParentDbId(db, db_id) ==
    IF \E e \in db.parent : e[1] = db_id /\ e[3] = 0
    THEN (CHOOSE e \in db.parent : e[1] = db_id /\ e[3] = 0)[2]
    ELSE None

\* Importer._is_imported / _is_imported_db_id
IsImportedDbId(db, tip_db_id) ==
    \E r \in db.dotted_revno :
        r.tip_revision = tip_db_id /\ r.merged_revision = tip_db_id

(***************************************************************************)
(* The textual revno column: '.'.join(map(str, revno)) and                  *)
(* tuple(map(int, revno.split('.')))                                        *)
(***************************************************************************)
Digits == <<"0", "1", "2", "3", "4", "5", "6", "7", "8", "9">>

DigitValue(c) == (CHOOSE i \in 1..Len(Digits) : Digits[i] = c) - 1

RECURSIVE IntToStr(_)
IntToStr(n) ==
    IF n < Len(Digits) THEN <<Digits[n + 1]>>
    ELSE Append(IntToStr(n \div Len(Digits)), Digits[(n % Len(Digits)) + 1])

\* the revno written without the dots between its numbers
RECURSIVE RevnoWithoutDots(_)
RevnoWithoutDots(revno) ==
    IF Len(revno) = 1 THEN IntToStr(revno[1])
    ELSE IntToStr(revno[1]) \o RevnoWithoutDots(Tail(revno))

RECURSIVE RevnoToStr(_)
RevnoToStr(revno) ==
    IF Len(revno) = 1 THEN IntToStr(revno[1])
    ELSE IntToStr(revno[1]) \o <<".">> \o RevnoToStr(Tail(revno))

RECURSIVE StrToRevnoFrom(_, _, _)
StrToRevnoFrom(str, i, acc) ==
    IF i > Len(str) THEN <<acc>>
    ELSE IF str[i] = "."
         THEN <<acc>> \o StrToRevnoFrom(str, i + 1, 0)
         ELSE StrToRevnoFrom(str, i + 1,
                             acc * Len(Digits) + DigitValue(str[i]))

StrToRevno(str) == StrToRevnoFrom(str, 1, 0)

(***************************************************************************)
(* Importer: ancestry discovery (incremental mode)                          *)
(***************************************************************************)
NULL_PARENTS == <<NULL_REVISION>>

\* repository.get_parent_map([rev_id]).get(rev_id): a parent-less root maps
\* to NULL_PARENTS
OracleParents(g, rev_id) ==
    IF g[rev_id] = <<>> THEN NULL_PARENTS ELSE g[rev_id]

\* the inner "for parent_id in pmap[rev_id]" of _find_known_ancestors
RECURSIVE FKAParents(_, _, _, _)
FKAParents(st, rev_id, parent_ids, i) ==
    IF i > Len(parent_ids) THEN st
    ELSE LET p == parent_ids[i]
             add == p \notin DOMAIN st.known /\ p \notin st.all_needed
             st1 == [st EXCEPT
                       !.needed = IF add THEN Append(@, p) ELSE @,
                       !.all_needed = IF add THEN @ \cup {p} ELSE @,
                       !.children = Put(@, p, Append(Get(@, p, <<>>), rev_id))]
         IN  FKAParents(st1, rev_id, parent_ids, i + 1)

\* the turn without the test for NULL_PARENTS: the null revision is searched
\* like any other parent
FKAStepNullAsParent(g, st) ==
    LET rev_id == Last(st.needed)
        st0 == [st EXCEPT !.needed = Front(@)]
        db_id == GetDbId(st.db, rev_id)
    IN  IF rev_id \in DOMAIN st.known THEN st0
        ELSE IF db_id # None
        THEN [st0 EXCEPT !.known = Put(@, rev_id, GdfoOf(st.db, db_id))]
        ELSE IF ~HasParentMap(g, rev_id)
        THEN LET db1 == InsertRevision(st.db, rev_id, 1)
             IN  [st0 EXCEPT
                    !.parent_map = Put(@, rev_id, <<>>),
                    !.needed = Append(@, rev_id),
                    !.db = InsertGhost(db1, rev_id)]
        ELSE FKAParents([st0 EXCEPT
                           !.parent_map = Put(@, rev_id, OracleParents(g, rev_id))],
                        rev_id, OracleParents(g, rev_id), 1)

\* one turn of "while needed" of _find_known_ancestors
FKAStep(g, st) ==
    LET rev_id == Last(st.needed)
        st0 == [st EXCEPT !.needed = Front(@)]
        db_id == GetDbId(st.db, rev_id)
    IN  IF rev_id \in DOMAIN st.known THEN st0
        ELSE IF db_id # None
        THEN [st0 EXCEPT !.known = Put(@, rev_id, GdfoOf(st.db, db_id))]
        ELSE IF ~HasParentMap(g, rev_id)
                \/ OracleParents(g, rev_id) = NULL_PARENTS
        THEN LET db1 == InsertRevision(st.db, rev_id, 1)
             IN  [st0 EXCEPT
                    !.parent_map = Put(@, rev_id, <<>>),
                    !.needed = Append(@, rev_id),
                    !.db = IF ~HasParentMap(g, rev_id)
                           THEN InsertGhost(db1, rev_id) ELSE db1]
        ELSE FKAParents([st0 EXCEPT
                           !.parent_map = Put(@, rev_id, OracleParents(g, rev_id))],
                        rev_id, OracleParents(g, rev_id), 1)

RECURSIVE FKALoop(_, _)
FKALoop(g, st) ==
    IF st.needed = <<>> THEN st ELSE FKALoop(g, FKAStep(g, st))

\* Importer._find_known_ancestors.  all_needed starts as set(new_tip_rev_id),
\* the set of the characters of the identifier, none of which is a revision
\* identifier.
FindKnownAncestors(db, g, new_tip_rev_id) ==
    FKALoop(g, [db |-> db, needed |-> <<new_tip_rev_id>>, all_needed |-> {},
                children |-> [r \in {} |-> <<>>],
                parent_map |-> [r \in {} |-> <<>>],
                known |-> [r \in {} |-> 0]])

\* gdfo of a child all of whose parents are known (max_gdfo + 1), None when
\* one parent has not been computed yet
RECURSIVE MaxGdfo(_, _, _, _)
MaxGdfo(known, parent_ids, i, max_gdfo) ==
    IF i > Len(parent_ids) THEN max_gdfo
    ELSE IF parent_ids[i] \notin DOMAIN known THEN None
    ELSE MaxGdfo(known, parent_ids, i + 1, Max(max_gdfo, known[parent_ids[i]]))

\* the gdfo of a child taken as the greatest gdfo of its parents
ChildGdfoOfMax(known, parent_ids) == MaxGdfo(known, parent_ids, 1, -1)

\* the gdfo of a child taken from its left-hand parent alone
ChildGdfoOfLeftParent(known, parent_ids) ==
    IF MaxGdfo(known, parent_ids, 1, -1) = None THEN None
    ELSE known[parent_ids[1]] + 1

ChildGdfo(known, parent_ids) ==
    LET m == MaxGdfo(known, parent_ids, 1, -1)
    IN  IF m = None THEN None ELSE m + 1

\* "for child_id in children.get(rev_id, [])" of _compute_gdfo_and_insert
RECURSIVE CGIChildren(_, _, _)
CGIChildren(st, kids, i) ==
    IF i > Len(kids) THEN st
    ELSE LET child_id == kids[i]
             child_gdfo == ChildGdfo(st.known, st.parent_map[child_id])
         IN  IF child_id \in DOMAIN st.known \/ child_gdfo = None
             THEN CGIChildren(st, kids, i + 1)
             ELSE CGIChildren(
                    [st EXCEPT
                       !.known = Put(@, child_id, child_gdfo),
                       !.db = InsertRevision(@, child_id, child_gdfo),
                       !.pending = Append(@, child_id)],
                    kids, i + 1)

RECURSIVE CGILoop(_)
CGILoop(st) ==
    IF st.pending = <<>> THEN st
    ELSE LET rev_id == Last(st.pending)
         IN  CGILoop(CGIChildren([st EXCEPT !.pending = Front(@)],
                                 Get(st.children, rev_id, <<>>), 1))

\* Importer._compute_gdfo_and_insert; pending starts with the known
\* revisions in ascending identifier order
ComputeGdfoAndInsert(st) ==
    CGILoop([db |-> st.db, known |-> st.known, children |-> st.children,
             parent_map |-> st.parent_map,
             pending |-> SetToSeq(DOMAIN st.known)]).db

\* the (child, parent, parent_idx) rows of one parent_map entry
ParentRows(db, rev_id, parent_ids) ==
    {<<GetDbId(db, rev_id), GetDbId(db, parent_ids[i]), i - 1>> :
        i \in 1..Len(parent_ids)}

\* INSERT OR IGNORE INTO parent: a row is ignored when it violates
\* UNIQUE(child, parent_idx)
InsertOrIgnoreParents(db, rows) ==
    [db EXCEPT !.parent = @ \cup
        {e \in rows : ~\E x \in db.parent : x[1] = e[1] /\ x[3] = e[3]}]

\* Importer._insert_parent_map for an Importer whose _db_parent_map is empty
InsertParentMap(db, parent_map) ==
    InsertOrIgnoreParents(db,
        UNION {ParentRows(db, r, parent_map[r]) : r \in DOMAIN parent_map})

\* Importer._update_ancestry
UpdateAncestry(db, g, new_tip_rev_id) ==
    LET Insert(st) == InsertParentMap(ComputeGdfoAndInsert(st), st.parent_map)
    IN  Insert(FindKnownAncestors(db, g, new_tip_rev_id))

(***************************************************************************)
(* _IncrementalMergeSort.  All identifiers are db_ids.  The sorter state is *)
(* a record ms; ms.err is "" while no step has failed, and names the        *)
(* failure otherwise (a failed lookup, or a loop that cannot end).          *)
(***************************************************************************)
MAINLINE_BRANCH == <<0>>

\* _IncrementalMergeSort.__init__
IMSInit(tip_db_id) ==
    [tip_db_id |-> tip_db_id,
     mainline_db_ids |-> <<>>,
     imported_mainline_id |-> None,
     known_gdfo |-> [d \in {} |-> 0],
     interesting_ancestor_ids |-> {},
     imported_dotted_revno |-> [d \in {} |-> <<>>],
     known_dotted |-> {},
     imported_gdfo |-> None,
     search_tips |-> {},
     revno_to_branch_count |-> [b \in {} |-> 0],
     branch_to_child_count |-> [b \in {} |-> 0],
     depth_first_stack |-> <<>>,
     scheduled_stack |-> <<>>,
     seen_parents |-> {},
     pushed |-> <<>>,
     children_calls |-> <<>>,
     ghosts |-> {},
     err |-> ""]

RECURSIVE NeededMainline(_, _)
NeededMainline(db, db_id) ==
    IF db_id = None \/ IsImportedDbId(db, db_id) THEN <<>>
    ELSE <<db_id>> \o NeededMainline(db, GetLhParentDbId(db, db_id))

RECURSIVE FirstImported(_, _)
FirstImported(db, db_id) ==
    IF db_id = None \/ IsImportedDbId(db, db_id) THEN db_id
    ELSE FirstImported(db, GetLhParentDbId(db, db_id))

\* _find_needed_mainline that takes the tip as needed when it is imported
FindNeededMainlineAgain(db, ms) ==
    LET needed == IF IsImportedDbId(db, ms.tip_db_id) THEN <<ms.tip_db_id>>
                  ELSE NeededMainline(db, ms.tip_db_id)
    IN  [ms EXCEPT !.mainline_db_ids = needed,
                   !.interesting_ancestor_ids = @ \cup Range(needed),
                   !.imported_mainline_id =
                       IF IsImportedDbId(db, ms.tip_db_id)
                       THEN GetLhParentDbId(db, ms.tip_db_id)
                       ELSE FirstImported(db, ms.tip_db_id)]

\* _find_needed_mainline
FindNeededMainline(db, ms) ==
    LET needed == NeededMainline(db, ms.tip_db_id)
    IN  [ms EXCEPT !.mainline_db_ids = needed,
                   !.interesting_ancestor_ids = @ \cup Range(needed),
                   !.imported_mainline_id = FirstImported(db, ms.tip_db_id)]

\* the branch key and mini revno of a revno
BranchKey(revno) ==
    IF Len(revno) > 1 THEN <<revno[1], revno[2]>> ELSE MAINLINE_BRANCH

MiniRevno(revno) == IF Len(revno) > 1 THEN revno[3] ELSE revno[1]

\* _update_info_from_dotted_revno, one row after the other
RECURSIVE UpdateInfoFromDottedRevno(_, _, _)
UpdateInfoFromDottedRevno(ms, dotted_info, i) ==
    IF i > Len(dotted_info) THEN ms
    ELSE LET row == dotted_info[i]
             revno == row.info[1]
             rbc == ms.revno_to_branch_count
             rbc1 == IF Len(revno) > 1
                     THEN IF revno[1] \notin DOMAIN rbc \/ revno[2] > rbc[revno[1]]
                          THEN Put(rbc, revno[1], revno[2]) ELSE rbc
                     ELSE IF 0 \in DOMAIN rbc THEN rbc ELSE Put(rbc, 0, 0)
             key == BranchKey(revno)
             mini == MiniRevno(revno)
             bcc == ms.branch_to_child_count
             bcc1 == IF key \notin DOMAIN bcc \/ mini > bcc[key]
                     THEN Put(bcc, key, mini) ELSE bcc
         IN  UpdateInfoFromDottedRevno(
                [ms EXCEPT
                   !.imported_dotted_revno = Put(@, row.db_id, row.info),
                   !.known_dotted = @ \cup {revno},
                   !.revno_to_branch_count = rbc1,
                   !.branch_to_child_count = bcc1],
                dotted_info, i + 1)

\* SELECT merged_revision, revno, end_of_merge, merge_depth FROM dotted_revno
\*  WHERE tip_revision = ? ORDER BY dist
DottedRows(db, tip_db_id) ==
    LET rows == {r \in db.dotted_revno : r.tip_revision = tip_db_id}
        dists == SetToSeq({r.dist : r \in rows})
    IN  [i \in 1..Len(dists) |-> CHOOSE r \in rows : r.dist = dists[i]]

\* _step_mainline that loads the rows of the imported mainline revision
\* and stays on it
StepMainlineStays(db, ms) ==
    LET DottedInfo(rows) ==
            [i \in 1..Len(rows) |->
                [db_id |-> rows[i].merged_revision,
                 info |-> <<StrToRevno(rows[i].revno), rows[i].end_of_merge,
                            rows[i].merge_depth>>]]
    IN  UpdateInfoFromDottedRevno(ms,
            DottedInfo(DottedRows(db, ms.imported_mainline_id)), 1)

\* _step_mainline
StepMainline(db, ms) ==
    LET DottedInfo(rows) ==
            [i \in 1..Len(rows) |->
                [db_id |-> rows[i].merged_revision,
                 info |-> <<StrToRevno(rows[i].revno), rows[i].end_of_merge,
                            rows[i].merge_depth>>]]
        StepTo(ms1, lh) ==
            IF lh = None
            THEN [ms1 EXCEPT !.imported_mainline_id = None,
                             !.imported_gdfo = 0]
            ELSE [ms1 EXCEPT !.imported_mainline_id = lh,
                             !.imported_gdfo = GdfoOf(db, lh),
                             !.known_gdfo = Put(@, lh, GdfoOf(db, lh))]
    IN  StepTo(UpdateInfoFromDottedRevno(ms,
                   DottedInfo(DottedRows(db, ms.imported_mainline_id)), 1),
               IF ms.imported_mainline_id = None THEN None
               ELSE GetLhParentDbId(db, ms.imported_mainline_id))

\* known_gdfo.update(res) for a set of db_ids
UpdateKnownGdfo(db, known_gdfo, ids) ==
    [d \in DOMAIN known_gdfo \cup ids |->
        IF d \in ids THEN GdfoOf(db, d) ELSE known_gdfo[d]]

\* _get_initial_search_tips
GetInitialSearchTips(db, ms) ==
    LET tips == {e[2] : e \in {x \in db.parent :
                    x[3] # 0 /\ x[1] \in Range(ms.mainline_db_ids)}}
        ms1 == [ms EXCEPT !.search_tips = tips,
                          !.known_gdfo = UpdateKnownGdfo(db, @, tips)]
    IN  [StepMainline(db, ms1) EXCEPT !.ghosts = db.ghost]

\* "db_id in self._imported_dotted_revno or db_id == self._imported_mainline_id"
AlreadyImported(ms, db_id) ==
    db_id \in DOMAIN ms.imported_dotted_revno \/ db_id = ms.imported_mainline_id

\* _split_search_tips_by_gdfo: the sorter state and still_unknown
SplitSearchTipsByGdfo(ms, unknown) ==
    LET removed == {d \in unknown : AlreadyImported(ms, d)}
        rest == unknown \ removed
    IN  IF \E d \in rest : d \notin DOMAIN ms.known_gdfo
        THEN [ms |-> [ms EXCEPT !.err = "KeyError"], unknown |-> {}]
        ELSE LET newer == {d \in rest : ms.known_gdfo[d] >= ms.imported_gdfo}
             IN  [ms |-> [ms EXCEPT
                            !.search_tips = @ \ removed,
                            !.interesting_ancestor_ids = @ \cup newer],
                  unknown |-> rest \ newer]

\* the children filter taking every tip without an imported child for a
\* new one
SplitInterestingAllCandidates(db, ms, unknown_search_tips) ==
    LET parent_child_res == {e \in db.parent : e[2] \in unknown_search_tips}
        imported_rows == {e \in parent_child_res : AlreadyImported(ms, e[1])}
        already_imported == {e[2] : e \in imported_rows}
                            \cup {e[1] : e \in imported_rows}
    IN  [ms |-> [ms EXCEPT
                   !.search_tips = @ \ already_imported,
                   !.interesting_ancestor_ids =
                        @ \cup (unknown_search_tips \ already_imported)],
         unknown |-> {}]

\* the children filter without the look at the gdfo of the children: every
\* child that is not interesting counts as possibly merged
SplitInterestingIgnoringGdfo(db, ms, unknown_search_tips) ==
    LET parent_child_res == {e \in db.parent : e[2] \in unknown_search_tips}
        imported_rows == {e \in parent_child_res : AlreadyImported(ms, e[1])}
        already_imported == {e[2] : e \in imported_rows}
                            \cup {e[1] : e \in imported_rows}
        possibly_merged_children ==
            {e[1] : e \in {x \in parent_child_res :
                x[1] \notin ms.interesting_ancestor_ids
                /\ x[2] \notin already_imported}}
        candidates == unknown_search_tips \ already_imported
        still_unknown == {p \in candidates :
                            \E e \in parent_child_res :
                                e[2] = p /\ e[1] \in possibly_merged_children}
    IN  [ms |-> [ms EXCEPT
                   !.search_tips = @ \ already_imported,
                   !.interesting_ancestor_ids =
                        @ \cup (candidates \ still_unknown)],
         unknown |-> still_unknown]

\* _split_interesting_using_children: the sorter state and still_unknown
SplitInterestingUsingChildren(db, ms, unknown_search_tips) ==
    LET parent_child_res == {e \in db.parent : e[2] \in unknown_search_tips}
        imported_rows == {e \in parent_child_res : AlreadyImported(ms, e[1])}
        already_imported == {e[2] : e \in imported_rows}
                            \cup {e[1] : e \in imported_rows}
        possibly_merged_children ==
            {e[1] : e \in {x \in parent_child_res :
                x[1] \notin ms.interesting_ancestor_ids
                /\ x[2] \notin already_imported}}
        known_gdfo == UpdateKnownGdfo(db, ms.known_gdfo,
                        possibly_merged_children \ DOMAIN ms.known_gdfo)
        older == {c \in possibly_merged_children :
                    known_gdfo[c] < ms.imported_gdfo}
        candidates == unknown_search_tips \ already_imported
        still_unknown == {p \in candidates :
                            \E e \in parent_child_res :
                                e[2] = p /\ e[1] \in older}
    IN  [ms |-> [ms EXCEPT
                   !.search_tips = @ \ already_imported,
                   !.known_gdfo = known_gdfo,
                   !.interesting_ancestor_ids =
                        @ \cup (candidates \ still_unknown)],
         unknown |-> still_unknown]

\* _step_search_tips
StepSearchTips(db, ms) ==
    LET res == {e[2] : e \in {x \in db.parent : x[1] \in ms.search_tips}}
    IN  [ms EXCEPT !.search_tips = res \ ms.interesting_ancestor_ids,
                   !.known_gdfo = UpdateKnownGdfo(db, @, res)]

\* the sorter after a call of _split_interesting_using_children, the call
\* noted in children_calls: a is what the call was given, b what it returned
NoteChildrenCall(a, b) ==
    [b EXCEPT !.ms.children_calls = Append(@,
        [unknown |-> a.unknown,
         imported |-> DOMAIN a.ms.imported_dotted_revno
                        \cup {a.ms.imported_mainline_id},
         imported_gdfo |-> a.ms.imported_gdfo,
         interesting |-> a.ms.interesting_ancestor_ids,
         now_interesting |-> b.ms.interesting_ancestor_ids,
         still_unknown |-> b.unknown])]

\* the "while unknown" loop of _find_interesting_ancestry; every call of the
\* children filter is noted
RECURSIVE ClassifySearchTips(_, _, _)
ClassifySearchTips(db, ms, unknown) ==
    IF unknown = {} \/ ms.err # "" THEN ms
    ELSE LET AfterChildren(b) ==
                 IF b.unknown = {} THEN b.ms
                 ELSE ClassifySearchTips(db, StepMainline(db, b.ms), b.unknown)
             AfterGdfo(a) ==
                 IF a.unknown = {} THEN a.ms
                 ELSE AfterChildren(NoteChildrenCall(a,
                        SplitInterestingUsingChildren(db, a.ms, a.unknown)))
         IN  AfterGdfo(SplitSearchTipsByGdfo(ms, unknown))

\* the "while self._search_tips" loop of _find_interesting_ancestry
RECURSIVE SearchLoop(_, _)
SearchLoop(db, ms) ==
    IF ms.search_tips = {} \/ ms.err # "" THEN ms
    ELSE SearchLoop(db,
            StepSearchTips(db, ClassifySearchTips(db, ms, ms.search_tips)))

\* the "while missing_parent_ids" loop of _ensure_lh_parent_info; once the
\* imported mainline is walked off, a further step loads nothing and the
\* loop cannot end
RECURSIVE EnsureLoop(_, _, _)
EnsureLoop(db, ms, missing_parent_ids) ==
    IF missing_parent_ids = {} THEN ms
    ELSE IF ms.imported_mainline_id = None
    THEN [ms EXCEPT !.err = "Hang"]
    ELSE LET Again(ms1) ==
                 EnsureLoop(db, ms1,
                     missing_parent_ids \ DOMAIN ms1.imported_dotted_revno)
         IN  Again(StepMainline(db, ms))

\* _ensure_lh_parent_info
EnsureLhParentInfo(db, ms) ==
    LET missing_parent_ids ==
            {GetLhParentDbId(db, d) : d \in
                {x \in ms.interesting_ancestor_ids :
                    /\ GetLhParentDbId(db, x) # None
                    /\ GetLhParentDbId(db, x) \notin ms.interesting_ancestor_ids
                    /\ GetLhParentDbId(db, x) \notin
                            DOMAIN ms.imported_dotted_revno}}
    IN  EnsureLoop(db, ms, missing_parent_ids \ ms.ghosts)

\* _find_interesting_ancestry
FindInterestingAncestry(db, ms) ==
    LET Ensure(ms1) == IF ms1.err # "" THEN ms1 ELSE EnsureLhParentInfo(db, ms1)
    IN  Ensure(SearchLoop(db,
                   GetInitialSearchTips(db, FindNeededMainline(db, ms))))

\* _is_first_child without the look at the numbering already imported
IsFirstChildOfThisSort(ms, parent_id) == parent_id \notin ms.seen_parents

\* _is_first_child answering that every child is the first one
IsFirstChildAlways(ms, parent_id) == TRUE

\* _is_first_child without the look at the parents seen in this sort
IsFirstChildOfStoredOnly(ms, parent_id) ==
    IF parent_id \notin DOMAIN ms.imported_dotted_revno THEN TRUE
    ELSE LET revno == ms.imported_dotted_revno[parent_id][1]
         IN  ~(Get(ms.branch_to_child_count, BranchKey(revno), 0)
                    > MiniRevno(revno))

\* _is_first_child: whether the child being pushed is the first child of
\* parent_id, in this sort and in the numbering already imported
IsFirstChild(ms, parent_id) ==
    IF parent_id \in ms.seen_parents THEN FALSE
    ELSE IF parent_id \notin DOMAIN ms.imported_dotted_revno THEN TRUE
    ELSE LET revno == ms.imported_dotted_revno[parent_id][1]
         IN  ~(Get(ms.branch_to_child_count, BranchKey(revno), 0)
                    > MiniRevno(revno))

\* _push_node; pushed keeps the nodes put on the stack in the order of the
\* calls (the code counts them in _stats['pushed'])
PushNode(db, ms, db_id, merge_depth) ==
    IF db_id \notin ms.interesting_ancestor_ids THEN ms
    ELSE LET Push(left_parent, pending_parents) ==
                 [ms EXCEPT
                    !.seen_parents = IF left_parent # None
                                     THEN @ \cup {left_parent} ELSE @,
                    !.pushed = Append(@, db_id),
                    !.depth_first_stack = Append(@,
                        [key |-> db_id, merge_depth |-> merge_depth,
                         revno |-> <<>>, end_of_merge |-> FALSE,
                         left_parent |-> left_parent,
                         left_pending_parent |-> left_parent,
                         pending_parents |-> pending_parents,
                         is_first |-> IF left_parent # None
                                      THEN IsFirstChild(ms, left_parent)
                                      ELSE TRUE])]
             WithParents(parent_ids) ==
                 Push(IF Len(parent_ids) > 0 /\ parent_ids[1] \notin ms.ghosts
                      THEN parent_ids[1] ELSE None,
                      IF Len(parent_ids) > 0
                      THEN SelectSeq(Tail(parent_ids),
                                     LAMBDA x : x \notin ms.ghosts)
                      ELSE <<>>)
         IN  WithParents(GetParents(db, db_id))

\* _step_to_latest_branch that loads nothing
StepToLatestBranchLoadsNothing(db, ms, base_revno) == ms

\* _step_to_latest_branch
RECURSIVE StepToLatestBranch(_, _, _)
StepToLatestBranch(db, ms, base_revno) ==
    IF ms.imported_mainline_id = None THEN ms
    ELSE IF <<base_revno>> \in ms.known_dotted THEN ms
    ELSE IF <<base_revno, Get(ms.revno_to_branch_count, base_revno, 0), 1>>
                \in ms.known_dotted
    THEN ms
    ELSE StepToLatestBranch(db, StepMainline(db, ms), base_revno)

\* the revno part of _pop_node for a node with a left-hand parent
PopWithParent(db, ms, node) ==
    LET parent_revno == ms.imported_dotted_revno[node.left_parent][1]
    IN  IF node.is_first
        THEN IF Len(parent_revno) = 1
             THEN LET mini_revno == parent_revno[1] + 1
                  IN  IF MAINLINE_BRANCH \notin DOMAIN ms.branch_to_child_count
                      THEN [ms |-> [ms EXCEPT !.err = "KeyError"],
                            revno |-> <<>>]
                      ELSE [ms |-> [ms EXCEPT !.branch_to_child_count =
                                      IF mini_revno > @[MAINLINE_BRANCH]
                                      THEN Put(@, MAINLINE_BRANCH, mini_revno)
                                      ELSE @],
                            revno |-> <<mini_revno>>]
             ELSE [ms |-> ms,
                   revno |-> <<parent_revno[1], parent_revno[2],
                               parent_revno[3] + 1>>]
        ELSE LET base_revno == parent_revno[1]
                 NewBranch(ms1, branch_count) ==
                     [ms |-> [ms1 EXCEPT !.revno_to_branch_count =
                                            Put(@, base_revno, branch_count)],
                      revno |-> <<base_revno, branch_count, 1>>]
                 Stepped(ms1) ==
                     NewBranch(ms1,
                         Get(ms1.revno_to_branch_count, base_revno, 0) + 1)
             IN  Stepped(IF Len(parent_revno) > 1
                         THEN StepToLatestBranch(db, ms, parent_revno[1])
                         ELSE ms)

\* the revno part of _pop_node for a new root
PopNewRoot(db, ms, node) ==
    LET NewRoot(ms2, branch_count) ==
            IF branch_count = 0
            THEN [ms |-> [ms2 EXCEPT !.branch_to_child_count =
                                        Put(@, MAINLINE_BRANCH, 1)],
                  revno |-> <<1>>]
            ELSE [ms |-> ms2, revno |-> <<0, branch_count, 1>>]
        Counted(ms1, branch_count) ==
            NewRoot([ms1 EXCEPT !.revno_to_branch_count =
                                   Put(@, 0, branch_count)],
                    branch_count)
        Stepped(ms1) == Counted(ms1, Get(ms1.revno_to_branch_count, 0, -1) + 1)
    IN  Stepped(StepToLatestBranch(db, ms, 0))

\* the end_of_merge part of _pop_node with the first node popped always at
\* the end of a merge
PopEndOfMergeFirstTrue(db, ms, node) ==
    IF ms.scheduled_stack = <<>> THEN TRUE
    ELSE LET prev_node == Last(ms.scheduled_stack)
         IN  \/ prev_node.merge_depth < node.merge_depth
             \/ /\ prev_node.merge_depth = node.merge_depth
                /\ prev_node.key \notin Range(GetParents(db, node.key))

\* the end_of_merge part of _pop_node
PopEndOfMerge(db, ms, node) ==
    IF ms.scheduled_stack = <<>>
    THEN ~(node.left_parent # None /\ node.merge_depth = 0)
    ELSE LET prev_node == Last(ms.scheduled_stack)
         IN  \/ prev_node.merge_depth < node.merge_depth
             \/ /\ prev_node.merge_depth = node.merge_depth
                /\ prev_node.key \notin Range(GetParents(db, node.key))

\* _pop_node
PopNode(db, ms) ==
    LET node == Last(ms.depth_first_stack)
        ms0 == [ms EXCEPT !.depth_first_stack = Front(@)]
    IN  IF node.left_parent # None
           /\ node.left_parent \notin DOMAIN ms.imported_dotted_revno
        THEN [ms0 EXCEPT !.err = "KeyError"]
        ELSE LET Schedule(r, end_of_merge) ==
                     IF r.ms.err # "" THEN r.ms
                     ELSE [r.ms EXCEPT
                             !.imported_dotted_revno =
                                 Put(@, node.key,
                                     <<r.revno, end_of_merge,
                                       node.merge_depth>>),
                             !.known_dotted = @ \cup {r.revno},
                             !.scheduled_stack = Append(@,
                                 [node EXCEPT !.revno = r.revno,
                                              !.end_of_merge = end_of_merge,
                                              !.pending_parents = <<>>])]
             IN  Schedule(IF node.left_parent # None
                          THEN PopWithParent(db, ms0, node)
                          ELSE PopNewRoot(db, ms0, node),
                          PopEndOfMerge(db, ms0, node))

\* the turn of the inner loop without the test for a parent that has its
\* revno already: every interesting parent is pushed
VisitParentAgain(db, ms) ==
    LET n == Len(ms.depth_first_stack)
        last == ms.depth_first_stack[n]
        isLeft == last.left_pending_parent # None
        next_db_id == IF isLeft THEN last.left_pending_parent
                      ELSE Last(last.pending_parents)
        ms1 == [ms EXCEPT
                  !.depth_first_stack[n].left_pending_parent = None,
                  !.depth_first_stack[n].pending_parents =
                      IF isLeft THEN @ ELSE Front(@)]
        next_merge_depth == IF next_db_id = last.left_parent
                            THEN last.merge_depth
                            ELSE last.merge_depth + 1
    IN  IF next_db_id \notin ms.interesting_ancestor_ids THEN ms1
        ELSE PushNode(db, ms1, next_db_id, next_merge_depth)

\* one turn of the inner loop of _compute_merge_sort: take the next pending
\* parent of the node on top of the stack
VisitParent(db, ms) ==
    LET n == Len(ms.depth_first_stack)
        last == ms.depth_first_stack[n]
        isLeft == last.left_pending_parent # None
        next_db_id == IF isLeft THEN last.left_pending_parent
                      ELSE Last(last.pending_parents)
        ms1 == [ms EXCEPT
                  !.depth_first_stack[n].left_pending_parent = None,
                  !.depth_first_stack[n].pending_parents =
                      IF isLeft THEN @ ELSE Front(@)]
        next_merge_depth == IF next_db_id = last.left_parent
                            THEN last.merge_depth
                            ELSE last.merge_depth + 1
    IN  IF next_db_id \in DOMAIN ms.imported_dotted_revno THEN ms1
        ELSE PushNode(db, ms1, next_db_id, next_merge_depth)

RECURSIVE NumberLoop(_, _)
NumberLoop(db, ms) ==
    IF ms.depth_first_stack = <<>> \/ ms.err # "" THEN ms
    ELSE LET last == Last(ms.depth_first_stack)
         IN  IF last.left_pending_parent = None /\ last.pending_parents = <<>>
             THEN NumberLoop(db, PopNode(db, ms))
             ELSE NumberLoop(db, VisitParent(db, ms))

\* _compute_merge_sort
ComputeMergeSort(db, ms) ==
    IF ms.mainline_db_ids = <<>> THEN ms
    ELSE NumberLoop(db, PushNode(db, ms, ms.mainline_db_ids[1], 0))

\* topo_order: the sorter state after the run; the nodes are
\* Reverse(scheduled_stack)
TopoOrderState(db, tip_db_id) ==
    LET Sort(ms) == IF ms.err # "" THEN ms ELSE ComputeMergeSort(db, ms)
    IN  Sort(FindInterestingAncestry(db, IMSInit(tip_db_id)))

(***************************************************************************)
(* Importer: merge-sorted nodes of the tip, row insertion, mainline ranges  *)
(***************************************************************************)
_MAINLINE_PARENT_RANGE_LEN == 100

\* gdfo of the known graph: 1 for a ghost and for a parent-less revision,
\* otherwise one more than the greatest gdfo of the parents
RECURSIVE GraphGdfo(_, _)
GraphGdfo(g, r) ==
    IF IsGhost(g, r) \/ g[r] = <<>> THEN 1
    ELSE LET G[i \in 0..Len(g[r])] ==
                 IF i = 0 THEN 0 ELSE Max(G[i - 1], GraphGdfo(g, g[r][i]))
         IN  G[Len(g[r])] + 1

\* schema.ensure_revisions with the known graph: every identifier without a
\* revision row gets one (ascending identifier order), ghosts are recorded
RECURSIVE EnsureRevisions(_, _, _)
EnsureRevisions(db, g, revision_ids) ==
    LET missing == {r \in revision_ids : GetDbId(db, r) = None}
    IN  IF missing = {} THEN db
        ELSE LET r == CHOOSE x \in missing : \A y \in missing : x <= y
                 db1 == InsertRevision(db, r, GraphGdfo(g, r))
             IN  EnsureRevisions(IF IsGhost(g, r) THEN InsertGhost(db1, r)
                                 ELSE db1,
                                 g, revision_ids)

\* Importer._update_parents
UpdateParents(db, g, nodes) ==
    LET keys == {nodes[i].key : i \in 1..Len(nodes)}
        db1 == EnsureRevisions(db, g,
                   keys \cup UNION {Range(g[k]) : k \in keys})
    IN  InsertParentMap(db1, [k \in keys |-> g[k]])

\* the nodes of topo_order with their keys mapped back to revision ids
SortedNodes(db, ms) ==
    LET nodes == Reverse(ms.scheduled_stack)
    IN  [i \in 1..Len(nodes) |->
            [key |-> RevIdOf(db, nodes[i].key),
             merge_depth |-> nodes[i].merge_depth,
             revno |-> nodes[i].revno,
             end_of_merge |-> nodes[i].end_of_merge]]

\* the incremental branch of Importer._get_merge_sorted_tip after
\* _update_ancestry (validate = False): topo_order of the tip, the keys mapped
\* back to revision ids, and the failure, if any
IncrementalMergeSorted(db, tip_revision_id) ==
    LET Sorted(ms) ==
            [err |-> ms.err,
             merge_sorted |-> IF ms.err = "" THEN SortedNodes(db, ms) ELSE <<>>]
    IN  Sorted(TopoOrderState(db, GetDbId(db, tip_revision_id)))

\* Importer._get_merge_sorted_tip: the store, the nodes and the failure
GetMergeSortedTip(db, g, tip_revision_id, incremental) ==
    IF incremental
    THEN LET Result(db1, m) ==
                 [db |-> db1, err |-> m.err, merge_sorted |-> m.merge_sorted]
             Sorted(db1) ==
                 Result(db1, IncrementalMergeSorted(db1, tip_revision_id))
         IN  Sorted(UpdateAncestry(db, g, tip_revision_id))
    ELSE [db |-> db, err |-> "", merge_sorted |-> MergeSort(g, tip_revision_id)]

\* schema.create_dotted_revnos: executemany of single-row INSERTs; the first
\* row that violates UNIQUE(tip_revision, merged_revision) raises
\* IntegrityError, the rows before it stay in the transaction
RECURSIVE CreateDottedRevnos(_, _, _)
CreateDottedRevnos(db, revno_entries, i) ==
    IF i > Len(revno_entries) THEN [db |-> db, ok |-> TRUE]
    ELSE LET e == revno_entries[i]
         IN  IF \E r \in db.dotted_revno :
                    /\ r.tip_revision = e.tip_revision
                    /\ r.merged_revision = e.merged_revision
             THEN [db |-> db, ok |-> FALSE]
             ELSE CreateDottedRevnos(
                    [db EXCEPT !.dotted_revno = @ \cup {e}],
                    revno_entries, i + 1)

\* Importer._insert_nodes
InsertNodes(db, tip_rev_id, nodes) ==
    LET tip_db_id == GetDbId(db, tip_rev_id)
        revno_entries ==
            [i \in 1..Len(nodes) |->
                [tip_revision |-> tip_db_id,
                 merged_revision |-> GetDbId(db, nodes[i].key),
                 revno |-> RevnoToStr(nodes[i].revno),
                 end_of_merge |-> nodes[i].end_of_merge,
                 merge_depth |-> nodes[i].merge_depth,
                 dist |-> i - 1]]
    IN  CreateDottedRevnos(db, revno_entries, 1)

\* one group for all the nodes from index i on
GroupEndAtLast(nodes, i) == Len(nodes)

\* the index of the last node of the group that starts at index i
RECURSIVE GroupEnd(_, _)
GroupEnd(nodes, i) ==
    IF i = Len(nodes) \/ nodes[i + 1].merge_depth = 0 THEN i
    ELSE GroupEnd(nodes, i + 1)

\* the loop of Importer._import_tip from the mainline node at index i on; a
\* refused group that another mainline node follows ends the loop
RECURSIVE InsertGroups(_, _, _)
InsertGroups(db, nodes, i) ==
    IF i > Len(nodes) THEN [db |-> db, violation |-> FALSE]
    ELSE LET Inserted(j, r) ==
                 IF ~r.ok THEN [db |-> r.db, violation |-> TRUE]
                 ELSE IF j = Len(nodes) THEN [db |-> r.db, violation |-> FALSE]
                 ELSE InsertGroups(r.db, nodes, j + 1)
             Group(j) ==
                 Inserted(j, InsertNodes(db, nodes[i].key, SubSeq(nodes, i, j)))
         IN  Group(GroupEnd(nodes, i))

\* SELECT pkey, count, tail FROM mainline_parent_range WHERE head = ?
\*  ORDER BY count DESC LIMIT 1 (None when there is no such range)
GetMainlineRangeCount(db, head_db_id) ==
    LET keys == {k \in 1..Len(db.mainline_parent_range) :
                    db.mainline_parent_range[k].head = head_db_id}
    IN  IF keys = {} THEN None
        ELSE CHOOSE k \in keys : \A x \in keys :
                \/ db.mainline_parent_range[k].count
                        > db.mainline_parent_range[x].count
                \/ /\ db.mainline_parent_range[k].count
                        = db.mainline_parent_range[x].count
                   /\ k <= x

\* the revisions of a range in ascending dist
RangeMembers(db, range_key) ==
    LET rows == {m \in db.mainline_parent : m.range = range_key}
        dists == SetToSeq({m.dist : m \in rows})
    IN  [i \in 1..Len(dists) |->
            (CHOOSE m \in rows : m.dist = dists[i]).revision]

\* Importer._get_mainline_range: ORDER BY dist DESC
GetMainlineRange(db, range_key) == Reverse(RangeMembers(db, range_key))

\* the insertion with the left-hand parent of the head stored as the tail
InsertRangeTailAtParent(db, range_db_ids, tail_db_id) ==
    LET range_key == Len(db.mainline_parent_range) + 1
    IN  [db EXCEPT
           !.mainline_parent_range = Append(@,
               [head |-> range_db_ids[1],
                tail |-> GetLhParentDbId(db, range_db_ids[1]),
                count |-> Len(range_db_ids)]),
           !.mainline_parent = @ \cup
               {[range |-> range_key, revision |-> range_db_ids[i],
                 dist |-> i - 1] : i \in 1..Len(range_db_ids)}]

\* the insertion written over the newest range instead of after it
InsertRangeOverNewest(db, range_db_ids, tail_db_id) ==
    LET range_key == Max(Len(db.mainline_parent_range), 1)
    IN  [db EXCEPT
           !.mainline_parent_range =
               SubSeq(@, 1, range_key - 1) \o
               <<[head |-> range_db_ids[1], tail |-> tail_db_id,
                  count |-> Len(range_db_ids)]>>,
           !.mainline_parent = {m \in @ : m.range # range_key} \cup
               {[range |-> range_key, revision |-> range_db_ids[i],
                 dist |-> i - 1] : i \in 1..Len(range_db_ids)}]

\* Importer._insert_range
InsertRange(db, range_db_ids, tail_db_id) ==
    LET range_key == Len(db.mainline_parent_range) + 1
    IN  [db EXCEPT
           !.mainline_parent_range = Append(@,
               [head |-> range_db_ids[1], tail |-> tail_db_id,
                count |-> Len(range_db_ids)]),
           !.mainline_parent = @ \cup
               {[range |-> range_key, revision |-> range_db_ids[i],
                 dist |-> i - 1] : i \in 1..Len(range_db_ids)}]

\* the first loop without the inclusion of a range of less than
\* _MAINLINE_PARENT_RANGE_LEN revisions
RECURSIVE CollectMainlineNoAbsorb(_, _, _)
CollectMainlineNoAbsorb(db, cur_db_id, range_db_ids) ==
    IF cur_db_id = None \/ GetMainlineRangeCount(db, cur_db_id) # None
    THEN [range_db_ids |-> range_db_ids, cur_db_id |-> cur_db_id]
    ELSE CollectMainlineNoAbsorb(db, GetLhParentDbId(db, cur_db_id),
                                 Append(range_db_ids, cur_db_id))

\* the first loop with every range it meets included, whatever its count
RECURSIVE CollectMainlineAbsorbAny(_, _, _)
CollectMainlineAbsorbAny(db, cur_db_id, range_db_ids) ==
    IF cur_db_id = None
    THEN [range_db_ids |-> range_db_ids, cur_db_id |-> cur_db_id]
    ELSE LET Collect(range_key) ==
                 IF range_key # None
                 THEN IF range_db_ids # <<>>
                      THEN [range_db_ids |->
                                range_db_ids \o GetMainlineRange(db, range_key),
                            cur_db_id |->
                                db.mainline_parent_range[range_key].tail]
                      ELSE [range_db_ids |-> range_db_ids,
                            cur_db_id |-> cur_db_id]
                 ELSE CollectMainlineAbsorbAny(db,
                          GetLhParentDbId(db, cur_db_id),
                          Append(range_db_ids, cur_db_id))
         IN  Collect(GetMainlineRangeCount(db, cur_db_id))

\* the first loop of _build_one_mainline: range_db_ids and cur_db_id
RECURSIVE CollectMainline(_, _, _)
CollectMainline(db, cur_db_id, range_db_ids) ==
    IF cur_db_id = None
    THEN [range_db_ids |-> range_db_ids, cur_db_id |-> cur_db_id]
    ELSE LET Collect(range_key) ==
                 IF range_key # None
                 THEN IF range_db_ids # <<>>
                         /\ db.mainline_parent_range[range_key].count
                                < _MAINLINE_PARENT_RANGE_LEN
                      THEN [range_db_ids |->
                                range_db_ids \o GetMainlineRange(db, range_key),
                            cur_db_id |->
                                db.mainline_parent_range[range_key].tail]
                      ELSE [range_db_ids |-> range_db_ids,
                            cur_db_id |-> cur_db_id]
                 ELSE CollectMainline(db, GetLhParentDbId(db, cur_db_id),
                                      Append(range_db_ids, cur_db_id))
         IN  Collect(GetMainlineRangeCount(db, cur_db_id))

\* the second loop without the split into sections
InsertRangesWhole(db, range_db_ids, cur_db_id) ==
    IF range_db_ids = <<>> THEN db
    ELSE InsertRange(db, range_db_ids, cur_db_id)

\* the second loop of _build_one_mainline
RECURSIVE InsertRanges(_, _, _)
InsertRanges(db, range_db_ids, cur_db_id) ==
    IF range_db_ids = <<>> THEN db
    ELSE LET n == Len(range_db_ids)
             k == IF n > _MAINLINE_PARENT_RANGE_LEN
                  THEN n - _MAINLINE_PARENT_RANGE_LEN ELSE 0
             tail_db_ids == SubSeq(range_db_ids, k + 1, n)
         IN  InsertRanges(InsertRange(db, tail_db_ids, cur_db_id),
                          SubSeq(range_db_ids, 1, k), tail_db_ids[1])

\* _build_one_mainline without the stop at a range that starts at the head
BuildOneMainlineAgain(db, head_rev_id) ==
    LET head == GetDbId(db, head_rev_id)
    IN  InsertRanges(db, <<head>>, GetLhParentDbId(db, head))

\* Importer._build_one_mainline
BuildOneMainline(db, head_rev_id) ==
    LET Insert(c) == InsertRanges(db, c.range_db_ids, c.cur_db_id)
    IN  Insert(CollectMainline(db, GetDbId(db, head_rev_id), <<>>))

\* the insertion with the store put back as it was when a group is refused
InsertMergeSortedOrRollBack(db, nodes) ==
    LET Result(r) ==
            [db |-> IF r.violation THEN db ELSE r.db, err |-> "",
             violation |-> r.violation]
    IN  Result(InsertGroups(db, nodes, 1))

\* the try block of Importer._import_tip without _build_one_mainline: the
\* groups of the merge-sorted nodes are inserted, newest mainline first
InsertMergeSorted(db, nodes) ==
    IF nodes # <<>> /\ nodes[1].merge_depth # 0
    THEN [db |-> db, err |-> "AssertionError", violation |-> FALSE]
    ELSE LET Result(r) ==
                 [db |-> r.db, err |-> "", violation |-> r.violation]
         IN  Result(InsertGroups(db, nodes, 1))

\* Importer._import_tip: the uncommitted store, the failure if any, whether
\* an insertion met the uniqueness violation, and the merge-sorted nodes
ImportTip(db, g, tip_revision_id, incremental) ==
    LET Result(nodes, r) ==
            [db |-> IF r.err = ""
                    THEN BuildOneMainline(r.db, tip_revision_id)
                    ELSE r.db,
             err |-> r.err, violation |-> r.violation,
             merge_sorted |-> nodes]
        Insert(db1, nodes) == Result(nodes, InsertMergeSorted(db1, nodes))
        WithNodes(m) ==
            IF m.err # ""
            THEN [db |-> m.db, err |-> m.err, violation |-> FALSE,
                  merge_sorted |-> <<>>]
            ELSE Insert(IF incremental THEN m.db
                        ELSE UpdateParents(
                                EnsureRevisions(m.db, g,
                                    {m.merge_sorted[i].key :
                                        i \in 1..Len(m.merge_sorted)}),
                                g, m.merge_sorted),
                        m.merge_sorted)
    IN  WithNodes(GetMergeSortedTip(db, g, tip_revision_id, incremental))

\* Importer.do_import: the committed store after the call
DoImport(db, g, tip_revision_id, incremental) ==
    IF tip_revision_id = NULL_REVISION THEN db
    ELSE LET Committed(r) == IF r.err = "" THEN r.db ELSE db
         IN  Committed(ImportTip(db, g, tip_revision_id, incremental))

(***************************************************************************)
(* Querier                                                                  *)
(***************************************************************************)
\* Querier.__init__: the branch tip and what the store knows of it
NewQuerier(d, tip_rev_id) ==
    [branch_tip_rev_id |-> tip_rev_id,
     branch_tip_db_id |-> GetDbId(d, tip_rev_id),
     tip_is_imported |-> FALSE]

\* the Querier after a successful Querier._import_tip
AfterImportTip(d, q) ==
    [q EXCEPT !.branch_tip_db_id = GetDbId(d, q.branch_tip_rev_id),
              !.tip_is_imported = TRUE]

\* Querier._import_tip, the Importer running alone: the committed store, the
\* failure that leaves the call, and the Querier
QuerierImportTip(d, g, q) ==
    LET Imported(r) ==
            IF r.err = ""
            THEN [db |-> r.db, err |-> "", q |-> AfterImportTip(r.db, q),
                  imported |-> TRUE]
            ELSE [db |-> d, err |-> r.err, q |-> q, imported |-> TRUE]
    IN  Imported(IF q.branch_tip_rev_id = NULL_REVISION
                 THEN [db |-> d, err |-> ""]
                 ELSE ImportTip(d, g, q.branch_tip_rev_id, TRUE))

\* what Querier.ensure_branch_tip decides: "return" (nothing to do), "seen"
\* (the tip is found imported) or "import" (Querier._import_tip is called)
EnsureDecision(d, q) ==
    IF q.branch_tip_db_id # None /\ q.tip_is_imported THEN "return"
    ELSE IF q.branch_tip_db_id = None THEN "import"
    ELSE IF IsImportedDbId(d, q.branch_tip_db_id) THEN "seen"
    ELSE "import"

\* Querier.ensure_branch_tip
EnsureBranchTip(d, g, q) ==
    LET what == EnsureDecision(d, q)
    IN  IF what = "import" THEN QuerierImportTip(d, g, q)
        ELSE [db |-> d, err |-> "",
              q |-> IF what = "seen" THEN [q EXCEPT !.tip_is_imported = TRUE]
                    ELSE q,
              imported |-> FALSE]

\* Querier._get_range_key_and_tail: the best range with head = tip_db_id and
\* its tail, or no range and the left-hand parent
GetRangeKeyAndTail(d, tip_db_id) ==
    LET range_key == GetMainlineRangeCount(d, tip_db_id)
    IN  IF range_key = None
        THEN [range_key |-> None, tail |-> GetLhParentDbId(d, tip_db_id)]
        ELSE [range_key |-> range_key,
              tail |-> d.mainline_parent_range[range_key].tail]

\* the rows of the tip alone, whether a range starts at it or not
StepRowsOfTip(d, tip_db_id, range_key) ==
    {x \in d.dotted_revno : x.tip_revision = tip_db_id}

\* the dotted_revno rows the queries select at one step: those of the tip
\* where no range starts, else those of every revision of the range
StepRows(d, tip_db_id, range_key) ==
    LET tips == IF range_key = None THEN {tip_db_id}
                ELSE {m.revision : m \in {x \in d.mainline_parent :
                                             x.range = range_key}}
    IN  {x \in d.dotted_revno : x.tip_revision \in tips}

\* the while loop of Querier.get_dotted_revnos; revnos is the set of
\* <<revision id, revno>> entries, steps the <<tip_db_id, db_ids>> each
\* iteration started with
RECURSIVE DottedRevnosLoop(_, _, _, _, _)
DottedRevnosLoop(d, tip_db_id, db_ids, revnos, steps) ==
    IF tip_db_id = None \/ db_ids = {}
    THEN [revnos |-> revnos, steps |-> steps, tip_db_id |-> tip_db_id,
          db_ids |-> db_ids]
    ELSE LET Found(tail, revno_res) ==
                 DottedRevnosLoop(d, tail,
                     db_ids \ {x.merged_revision : x \in revno_res},
                     revnos \cup {<<RevIdOf(d, x.merged_revision),
                                    StrToRevno(x.revno)>> : x \in revno_res},
                     Append(steps, <<tip_db_id, db_ids>>))
             Step(r) ==
                 Found(r.tail, {x \in StepRows(d, tip_db_id, r.range_key) :
                                   x.merged_revision \in db_ids})
         IN  Step(GetRangeKeyAndTail(d, tip_db_id))

\* Querier.get_dotted_revnos: the store and the Querier after
\* ensure_branch_tip, and the result; a requested identifier without a
\* revision row stops the call in the debugger ("set_trace")
GetDottedRevnos(d, g, q, revision_ids) ==
    LET Answer(e, none) ==
            IF e.err # ""
            THEN [db |-> e.db, q |-> e.q, err |-> e.err, res |-> none]
            ELSE IF e.q.branch_tip_db_id = None
            THEN [db |-> e.db, q |-> e.q, err |-> "", res |-> none]
            ELSE IF \E r \in revision_ids : GetDbId(e.db, r) = None
            THEN [db |-> e.db, q |-> e.q, err |-> "set_trace", res |-> none]
            ELSE [db |-> e.db, q |-> e.q, err |-> "",
                  res |-> DottedRevnosLoop(e.db, e.q.branch_tip_db_id,
                              {GetDbId(e.db, r) : r \in revision_ids},
                              {}, <<>>)]
        Ensured(e) ==
            Answer(e, [revnos |-> {}, steps |-> <<>>,
                       tip_db_id |-> e.q.branch_tip_db_id, db_ids |-> {}])
    IN  Ensured(EnsureBranchTip(d, g, q))

\* the while loop of Querier.walk_ancestry
RECURSIVE WalkAncestryLoop(_, _, _, _)
WalkAncestryLoop(d, db_id, all_ancestors, steps) ==
    IF db_id = None THEN [all_ancestors |-> all_ancestors, steps |-> steps]
    ELSE LET Step(r) ==
                 WalkAncestryLoop(d, r.tail,
                     all_ancestors \cup
                         {x.merged_revision :
                             x \in StepRows(d, db_id, r.range_key)},
                     Append(steps, db_id))
         IN  Step(GetRangeKeyAndTail(d, db_id))

\* Querier.walk_ancestry: ensure_branch_tip is not called
WalkAncestry(d, q) ==
    WalkAncestryLoop(d, GetDbId(d, q.branch_tip_rev_id), {}, <<>>)

\* Querier.walk_mainline: ensure_branch_tip is not called, and
\* _get_mainline_range_starting_at reads the undefined name tip_db_id
WalkMainline(d, q) ==
    IF GetDbId(d, q.branch_tip_rev_id) = None
    THEN [err |-> "", all_ids |-> <<>>]
    ELSE [err |-> "NameError", all_ids |-> <<>>]

\* the SELECT joined with revision on tip_revision
RevisionResOfTip(d, tip_db_id, range_key, revno_strs) ==
    {<<RevIdOf(d, x.tip_revision), x.revno>> :
        x \in {y \in StepRows(d, tip_db_id, range_key) :
                  y.revno \in revno_strs}}

\* the SELECT of Querier.get_revision_ids at one step: <<revision_id, revno>>
\* of the rows whose revno is one of revno_strs
RevisionRes(d, tip_db_id, range_key, revno_strs) ==
    {<<RevIdOf(d, x.merged_revision), x.revno>> :
        x \in {y \in StepRows(d, tip_db_id, range_key) :
                  y.revno \in revno_strs}}

\* the while loop of Querier.get_revision_ids; revno_map is the set of
\* <<revno, revision id>> entries the rows of the steps assign
RECURSIVE RevisionIdsLoop(_, _, _, _, _)
RevisionIdsLoop(d, tip_db_id, revno_strs, revno_map, steps) ==
    IF tip_db_id = None \/ revno_strs = {}
    THEN [revno_map |-> revno_map, steps |-> steps]
    ELSE LET Found(tail, revision_res) ==
                 RevisionIdsLoop(d, tail,
                     revno_strs \ {x[2] : x \in revision_res},
                     revno_map \cup {<<StrToRevno(x[2]), x[1]>> :
                                        x \in revision_res},
                     Append(steps, tip_db_id))
             Step(r) ==
                 Found(r.tail,
                       RevisionRes(d, tip_db_id, r.range_key, revno_strs))
         IN  Step(GetRangeKeyAndTail(d, tip_db_id))

\* Querier.get_revision_ids
GetRevisionIds(d, g, q, revnos) ==
    LET Answer(e) ==
            IF e.err # ""
            THEN [db |-> e.db, q |-> e.q, err |-> e.err,
                  res |-> [revno_map |-> {}, steps |-> <<>>]]
            ELSE [db |-> e.db, q |-> e.q, err |-> "",
                  res |-> RevisionIdsLoop(e.db, e.q.branch_tip_db_id,
                              {RevnoToStr(n) : n \in revnos}, {}, <<>>)]
    IN  Answer(EnsureBranchTip(d, g, q))

\* the SELECT joined with revision on merged_revision
MainlineResOfMerged(d, tip_db_id, range_key, db_ids) ==
    {<<RevIdOf(d, x.merged_revision), x.merged_revision>> :
        x \in {y \in StepRows(d, tip_db_id, range_key) :
                  y.merged_revision \in db_ids}}

\* the SELECT of Querier.get_mainline_where_merged at one step:
\* <<revision_id of the tip_revision, merged_revision>>
MainlineRes(d, tip_db_id, range_key, db_ids) ==
    {<<RevIdOf(d, x.tip_revision), x.merged_revision>> :
        x \in {y \in StepRows(d, tip_db_id, range_key) :
                  y.merged_revision \in db_ids}}

\* the while loop of Querier.get_mainline_where_merged; the map is the set
\* of <<revision id, mainline revision id>> entries
RECURSIVE MainlineWhereMergedLoop(_, _, _, _, _)
MainlineWhereMergedLoop(d, tip_db_id, db_ids, revision_to_mainline_map, steps) ==
    IF tip_db_id = None \/ db_ids = {}
    THEN [revision_to_mainline_map |-> revision_to_mainline_map,
          steps |-> steps]
    ELSE LET Found(tail, range_key, mainline_res) ==
                 MainlineWhereMergedLoop(d, tail,
                     db_ids \ {x[2] : x \in mainline_res},
                     revision_to_mainline_map \cup
                         {<<RevIdOf(d, x[2]), x[1]>> : x \in mainline_res},
                     Append(steps, [tip_db_id |-> tip_db_id,
                                    range_key |-> range_key]))
             Step(r) ==
                 Found(r.tail, r.range_key,
                       MainlineRes(d, tip_db_id, r.range_key, db_ids))
         IN  Step(GetRangeKeyAndTail(d, tip_db_id))

\* Querier.get_mainline_where_merged; a requested identifier without a
\* revision row stops the call in the debugger ("set_trace")
GetMainlineWhereMerged(d, g, q, revision_ids) ==
    LET none == [revision_to_mainline_map |-> {}, steps |-> <<>>]
        Answer(e) ==
            IF e.err # ""
            THEN [db |-> e.db, q |-> e.q, err |-> e.err, res |-> none]
            ELSE IF e.q.branch_tip_db_id = None
            THEN [db |-> e.db, q |-> e.q, err |-> "", res |-> none]
            ELSE IF \E r \in revision_ids : GetDbId(e.db, r) = None
            THEN [db |-> e.db, q |-> e.q, err |-> "set_trace", res |-> none]
            ELSE [db |-> e.db, q |-> e.q, err |-> "",
                  res |-> MainlineWhereMergedLoop(e.db,
                              e.q.branch_tip_db_id,
                              {GetDbId(e.db, r) : r \in revision_ids},
                              {}, <<>>)]
    IN  Answer(EnsureBranchTip(d, g, q))

\* Querier._find_tip_containing
RECURSIVE FindTipContaining(_, _, _)
FindTipContaining(d, tip_db_id, merged_db_id) ==
    IF tip_db_id = None THEN None
    ELSE IF tip_db_id = merged_db_id THEN tip_db_id
    ELSE LET Step(r) ==
                 IF \E x \in StepRows(d, tip_db_id, r.range_key) :
                        x.merged_revision = merged_db_id
                 THEN tip_db_id
                 ELSE FindTipContaining(d, r.tail, merged_db_id)
         IN  Step(GetRangeKeyAndTail(d, tip_db_id))

\* the rows of one tip in the order of the index on
\* (tip_revision, merged_revision)
RowsByMergedRevision(d, tip_db_id) ==
    LET rows == {r \in d.dotted_revno : r.tip_revision = tip_db_id}
        merged == SetToSeq({r.merged_revision : r \in rows})
    IN  [i \in 1..Len(merged) |->
            CHOOSE r \in rows : r.merged_revision = merged[i]]

\* the rows of the tips one after the other, each tip's rows by dist
RECURSIVE RowsOfTipsByDist(_, _, _)
RowsOfTipsByDist(d, tips, i) ==
    IF i > Len(tips) THEN <<>>
    ELSE DottedRows(d, tips[i]) \o RowsOfTipsByDist(d, tips, i + 1)

\* the rows of the tips one after the other, each tip's rows by merged
\* revision
RECURSIVE RowsOfTipsByMerged(_, _, _)
RowsOfTipsByMerged(d, tips, i) ==
    IF i > Len(tips) THEN <<>>
    ELSE RowsByMergedRevision(d, tips[i]) \o RowsOfTipsByMerged(d, tips, i + 1)

\* the orders in which the SELECT over a range, which has no ORDER BY, can
\* return its rows: the members of the range in insertion order with the
\* rows of each by dist ("insert"), or the rows as the index on
\* (tip_revision, merged_revision) holds them ("index")
Plans == {"insert", "index"}

\* merged_res of one step of Querier._get_merge_sorted_range
MergedRes(d, tip_db_id, range_key, plan) ==
    IF range_key = None THEN DottedRows(d, tip_db_id)
    ELSE IF plan = "insert"
    THEN RowsOfTipsByDist(d, RangeMembers(d, range_key), 1)
    ELSE RowsOfTipsByMerged(d,
            SetToSeq(Range(RangeMembers(d, range_key))), 1)

\* the for loops of _get_merge_sorted_range over merged_res: the rows
\* yielded so far, whether start has been found, whether stop has been met
RECURSIVE YieldRows(_, _, _, _, _, _)
YieldRows(d, merged_res, i, start_db_id, stop_db_id, acc) ==
    IF i > Len(merged_res) \/ acc.stopped THEN acc
    ELSE IF ~acc.found_start /\ merged_res[i].merged_revision # start_db_id
    THEN YieldRows(d, merged_res, i + 1, start_db_id, stop_db_id, acc)
    ELSE IF stop_db_id # None /\ merged_res[i].merged_revision = stop_db_id
    THEN [acc EXCEPT !.found_start = TRUE, !.stopped = TRUE]
    ELSE YieldRows(d, merged_res, i + 1, start_db_id, stop_db_id,
            [acc EXCEPT
               !.found_start = TRUE,
               !.merge_sorted = Append(@,
                   [key |-> RevIdOf(d, merged_res[i].merged_revision),
                    merge_depth |-> merged_res[i].merge_depth,
                    revno |-> StrToRevno(merged_res[i].revno),
                    end_of_merge |-> merged_res[i].end_of_merge])])

\* the while loop of Querier._get_merge_sorted_range
RECURSIVE MergeSortedRangeLoop(_, _, _, _, _, _)
MergeSortedRangeLoop(d, tip_db_id, start_db_id, stop_db_id, plan, acc) ==
    IF tip_db_id = None \/ acc.stopped THEN acc
    ELSE LET Step(r) ==
                 MergeSortedRangeLoop(d, r.tail, start_db_id, stop_db_id, plan,
                     YieldRows(d, MergedRes(d, tip_db_id, r.range_key, plan),
                               1, start_db_id, stop_db_id,
                               [acc EXCEPT !.steps = Append(@, tip_db_id),
                                           !.ranges = @ \cup {r.range_key}]))
         IN  Step(GetRangeKeyAndTail(d, tip_db_id))

\* Querier._get_merge_sorted_range
GetMergeSortedRange(d, tip_db_id, start_db_id, stop_db_id, plan) ==
    MergeSortedRangeLoop(d, tip_db_id, start_db_id, stop_db_id, plan,
        [merge_sorted |-> <<>>,
         found_start |-> start_db_id = None \/ start_db_id = tip_db_id,
         stopped |-> FALSE, steps |-> <<>>, ranges |-> {}])

\* Querier.iter_merge_sorted_revisions; None stands for an argument that is
\* not given
IterMergeSortedRevisions(d, g, q, start_revision_id, stop_revision_id, plan) ==
    LET none == [merge_sorted |-> <<>>, found_start |-> FALSE,
                 stopped |-> FALSE, steps |-> <<>>, ranges |-> {}]
        Stream(e, start_db_id, stop_db_id) ==
            GetMergeSortedRange(e.db,
                FindTipContaining(e.db, e.q.branch_tip_db_id, start_db_id),
                start_db_id, stop_db_id, plan)
        Answer(e) ==
            IF e.err # ""
            THEN [db |-> e.db, q |-> e.q, err |-> e.err, res |-> none]
            ELSE IF e.q.branch_tip_db_id = None
            THEN [db |-> e.db, q |-> e.q, err |-> "", res |-> none]
            ELSE [db |-> e.db, q |-> e.q, err |-> "",
                  res |-> Stream(e,
                      IF start_revision_id # None
                      THEN GetDbId(e.db, start_revision_id)
                      ELSE e.q.branch_tip_db_id,
                      IF stop_revision_id # None
                      THEN GetDbId(e.db, stop_revision_id)
                      ELSE None)]
    IN  Answer(EnsureBranchTip(d, g, q))

(***************************************************************************)
(* A tip import step by step, as other connections see it                   *)
(***************************************************************************)
\* the store a connection reads: its own uncommitted transaction when it
\* holds the database's write lock, else the committed store
View(committed, txn, holds_write_lock) ==
    IF holds_write_lock THEN txn ELSE committed

\* the committed store with a commit at the end of every phase
CommittedAfterEveryPhase(phase, committed, txn) == txn

\* the committed store after a phase of do_import: _db_conn.commit() is
\* called once, after _import_tip has returned
CommittedAfter(phase, committed, txn) ==
    IF phase = "commit" THEN txn ELSE committed

\* the committed store with a commit in the finally block
CommittedInFinally(committed, txn) == txn

\* the committed store after an error has left do_import: commit() is not
\* reached and the finally block of Querier._import_tip only gives the lock
\* back, so the connection's transaction is dropped
CommittedAfterFailure(committed, txn) == committed

\* _import_tip without the acquire()
AcquireNothing(holder, q, importer_lock) == holder

\* Querier._import_tip: the holder of the importer lock once acquire() has
\* returned; no lock is taken when set_importer_lock was never called
AcquireImporterLock(holder, q, importer_lock) ==
    IF importer_lock THEN q ELSE holder

\* _import_tip without the release() of the finally block
ReleaseImporterLockKept(holder, q, importer_lock) == holder

\* the finally block of Querier._import_tip
ReleaseImporterLock(holder, q, importer_lock) ==
    IF importer_lock THEN "free" ELSE holder

(***************************************************************************)
(* Bounds and the graphs explored                                           *)
(***************************************************************************)
MaxRevs == 3

MaxImports == 2

MaxIds == 2

\* the ordered parent lists of revision r: at most two distinct older
\* revisions
ParentChoices(r) ==
    {<<>>} \cup {<<p>> : p \in 1..(r - 1)}
           \cup {pq \in (1..(r - 1)) \X (1..(r - 1)) : pq[1] # pq[2]}

RECURSIVE GraphsOfSize(_)
GraphsOfSize(n) ==
    IF n = 0 THEN {<<>>}
    ELSE {Append(g, ps) : g \in GraphsOfSize(n - 1), ps \in ParentChoices(n)}

\* a revision identifier the repository has no parent map for
GhostRev == 99

\* parent lists of revision r that name the ghost
GhostChoices(r) ==
    {<<GhostRev>>} \cup {<<p, GhostRev>> : p \in 1..(r - 1)}
                   \cup {<<GhostRev, p>> : p \in 1..(r - 1)}

\* every graph of MaxRevs revisions, and every graph of one revision less in
\* which one revision has a ghost parent
EnumeratedGraphs ==
    GraphsOfSize(MaxRevs) \cup
    UNION {{[g EXCEPT ![r] = c] : g \in GraphsOfSize(MaxRevs - 1),
                                  c \in GhostChoices(r)} :
           r \in 1..(MaxRevs - 1)}

\* a mainline of four revisions
Linear == << <<>>, <<1>>, <<2>>, <<3>> >>

\* one merge: A=1, B=2, C=3 (from A), D=4 merges C into B
OneMerge == << <<>>, <<1>>, <<1>>, <<2, 3>> >>

\* two merges of separate branches: A=1, B=2, C=3, D=4, E=5, G=6
TwoMerges == << <<>>, <<1, 3>>, <<1>>, <<2>>, <<2, 4>>, <<5>> >>

\* a branch merged in two steps while a second branch starts from its first
\* revision
SubBranch == << <<>>, <<1>>, <<1, 2>>, <<2>>, <<2>>, <<3, 4>>, <<6, 5>> >>

\* two branches that merge each other, then are merged
CrissCross == << <<>>, <<1>>, <<1>>, <<2, 3>>, <<3, 2>>, <<4, 5>> >>

\* a second root merged into the mainline
TwoRoots == << <<>>, <<>>, <<1, 2>>, <<3>> >>

\* a ghost as left-hand parent of the first revision and as merged parent
GhostParents == << <<GhostRev>>, <<1>>, <<1>>, <<2, GhostRev>>, <<4, 3>> >>

ScenarioGraphs ==
    {Linear, OneMerge, TwoMerges, SubBranch, CrissCross, TwoRoots,
     GhostParents}

Graphs == EnumeratedGraphs \cup ScenarioGraphs

\* a branch that forks from A=1 and is merged: B=2, C=3 (from A), D=4 merges
\* C into B, E=5 continues C
Fork == << <<>>, <<1>>, <<1>>, <<2, 3>>, <<3>> >>

\* a merge of a ghost on a mainline that starts at a ghost
GhostMerge == << <<GhostRev>>, <<1>>, <<2, GhostRev>> >>

\* the graphs the queries are explored on
QueryGraphs == {OneMerge, Fork, GhostMerge}

\* the graphs concurrent imports are explored on
ConcurrentGraphs == {SubSeq(Linear, 1, 3), OneMerge}

\* the two connections of the concurrent runs
Queriers == {"q1", "q2"}

(***************************************************************************)
(* The state machine                                                        *)
(***************************************************************************)
VARIABLES graph, db, imports, done, modes, last, qs, lock, writer

vars == <<graph, db, imports, done, modes, last, qs, lock, writer>>

NoOp == [kind |-> "none"]

\* a connection before its Querier is constructed; unlocked tells whether it
\* has started an import without the importer lock
NoQuerier ==
    [pc |-> "new", q |-> NewQuerier(EmptyDb, NULL_REVISION),
     importer_lock |-> FALSE, txn |-> EmptyDb, pre |-> EmptyDb,
     started |-> EmptyDb, checked |-> EmptyDb, unlocked |-> FALSE]

InitOn(graphs) ==
    /\ graph \in graphs
    /\ db = EmptyDb
    /\ imports = 0
    /\ done = {}
    /\ modes = {}
    /\ last = NoOp
    /\ qs = [c \in Queriers |-> NoQuerier]
    /\ lock = "free"
    /\ writer = "none"

Init == InitOn(Graphs)

\* t_imp of an incremental import as a revision id (None when no mainline
\* revision of the tip is imported)
TImp(pre, g, tip) ==
    LET RevIdOrNone(db1, d) == IF d = None THEN None ELSE RevIdOf(db1, d)
        First(db1) == RevIdOrNone(db1, FirstImported(db1, GetDbId(db1, tip)))
    IN  First(UpdateAncestry(pre, g, tip))

\* a standalone Importer imports tip (do_import)
Import(tip, incremental) ==
    /\ imports < MaxImports
    /\ \E r \in {ImportTip(db, graph, tip, incremental)} :
           /\ db' = IF r.err = "" THEN r.db ELSE db
           /\ last' = [kind |-> "import", tip |-> tip,
                       incremental |-> incremental, pre |-> db,
                       err |-> r.err, violation |-> r.violation,
                       merge_sorted |-> r.merge_sorted,
                       t_imp |-> IF incremental THEN TImp(db, graph, tip)
                                 ELSE None]
           /\ done' = IF r.err = "" THEN done \cup {tip} ELSE done
    /\ imports' = imports + 1
    /\ modes' = modes \cup {incremental}
    /\ UNCHANGED <<graph, qs, lock, writer>>

Next ==
    \E tip \in RevIds(graph), incremental \in BOOLEAN : Import(tip, incremental)

Spec == Init /\ [][Next]_vars

(***************************************************************************)
(* Queries after imports: a run is explored up to its first query           *)
(***************************************************************************)
QueryKinds ==
    {"get_dotted_revnos", "walk_ancestry", "walk_mainline",
     "get_revision_ids", "get_mainline_where_merged",
     "iter_merge_sorted_revisions"}

BeforeFirstQuery == last.kind \notin QueryKinds

\* the tips a branch can have: a revision of the graph, or none
BranchTips == RevIds(graph) \cup {NULL_REVISION}

\* the sets of at most MaxIds revision identifiers, the ghost among them
IdSets ==
    {ids \in SUBSET (RevIds(graph) \cup {GhostRev}) : Cardinality(ids) <= MaxIds}

ImportBeforeQuery(tip, incremental) ==
    BeforeFirstQuery /\ Import(tip, incremental)

\* a new Querier of a branch with this tip answers get_dotted_revnos
QueryDottedRevnos(tip, revision_ids) ==
    /\ BeforeFirstQuery
    /\ \E r \in {GetDottedRevnos(db, graph, NewQuerier(db, tip),
                                 revision_ids)} :
           /\ db' = r.db
           /\ last' = [kind |-> "get_dotted_revnos", tip |-> tip,
                       revision_ids |-> revision_ids, pre |-> db,
                       err |-> r.err, revnos |-> r.res.revnos,
                       steps |-> r.res.steps,
                       tip_db_id |-> r.res.tip_db_id,
                       db_ids |-> r.res.db_ids]
    /\ UNCHANGED <<graph, imports, done, modes, qs, lock, writer>>

\* a new Querier of a branch with this tip answers walk_ancestry
QueryWalkAncestry(tip) ==
    /\ BeforeFirstQuery
    /\ \E r \in {WalkAncestry(db, NewQuerier(db, tip))} :
           last' = [kind |-> "walk_ancestry", tip |-> tip, pre |-> db,
                    err |-> "", steps |-> r.steps,
                    all_ancestors |-> {RevIdOf(db, x) : x \in r.all_ancestors}]
    /\ UNCHANGED <<graph, db, imports, done, modes, qs, lock, writer>>

\* a new Querier of a branch with this tip answers walk_mainline
QueryWalkMainline(tip) ==
    /\ BeforeFirstQuery
    /\ \E r \in {WalkMainline(db, NewQuerier(db, tip))} :
           last' = [kind |-> "walk_mainline", tip |-> tip, pre |-> db,
                    err |-> r.err, steps |-> r.all_ids]
    /\ UNCHANGED <<graph, db, imports, done, modes, qs, lock, writer>>

\* a revno no revision of the graph has
AbsentRevno == <<GhostRev>>

\* the revnos of the revisions of the graph as seen from its tips, and one
\* revno that is not in use
RevnoChoices ==
    {AbsentRevno} \cup
    UNION {{MergeSort(graph, t)[i].revno : i \in 1..Len(MergeSort(graph, t))} :
           t \in RevIds(graph)}

\* the sets of at most MaxIds revnos
RevnoSets == {ns \in SUBSET RevnoChoices : Cardinality(ns) <= MaxIds}

\* a new Querier of a branch with this tip answers get_revision_ids
QueryRevisionIds(tip, revnos) ==
    /\ BeforeFirstQuery
    /\ \E r \in {GetRevisionIds(db, graph, NewQuerier(db, tip), revnos)} :
           /\ db' = r.db
           /\ last' = [kind |-> "get_revision_ids", tip |-> tip,
                       revnos |-> revnos, pre |-> db, err |-> r.err,
                       revno_map |-> r.res.revno_map,
                       steps |-> r.res.steps]
    /\ UNCHANGED <<graph, imports, done, modes, qs, lock, writer>>

\* a new Querier of a branch with this tip answers
\* get_mainline_where_merged
QueryMainlineWhereMerged(tip, revision_ids) ==
    /\ BeforeFirstQuery
    /\ \E r \in {GetMainlineWhereMerged(db, graph, NewQuerier(db, tip),
                                        revision_ids)} :
           /\ db' = r.db
           /\ last' = [kind |-> "get_mainline_where_merged", tip |-> tip,
                       revision_ids |-> revision_ids, pre |-> db,
                       err |-> r.err,
                       revision_to_mainline_map |->
                           r.res.revision_to_mainline_map,
                       steps |-> r.res.steps]
    /\ UNCHANGED <<graph, imports, done, modes, qs, lock, writer>>

\* the start and stop arguments of iter_merge_sorted_revisions: a revision
\* of the graph, or not given
StartStopChoices == RevIds(graph) \cup {None}

\* a new Querier of a branch with this tip answers
\* iter_merge_sorted_revisions; the store returns the rows of a range in
\* one of the orders of Plans
QueryIterMergeSorted(tip, start, stop, plan) ==
    /\ BeforeFirstQuery
    /\ \E r \in {IterMergeSortedRevisions(db, graph, NewQuerier(db, tip),
                                          start, stop, plan)} :
           /\ db' = r.db
           /\ last' = [kind |-> "iter_merge_sorted_revisions", tip |-> tip,
                       start |-> start, stop |-> stop, plan |-> plan,
                       pre |-> db, err |-> r.err,
                       merge_sorted |-> r.res.merge_sorted,
                       steps |-> r.res.steps, ranges |-> r.res.ranges]
    /\ UNCHANGED <<graph, imports, done, modes, qs, lock, writer>>

NextQuery ==
    \/ \E tip \in RevIds(graph), incremental \in BOOLEAN :
            ImportBeforeQuery(tip, incremental)
    \/ \E tip \in BranchTips, revision_ids \in IdSets :
            QueryDottedRevnos(tip, revision_ids)
    \/ \E tip \in BranchTips : QueryWalkAncestry(tip)
    \/ \E tip \in BranchTips : QueryWalkMainline(tip)
    \/ \E tip \in BranchTips, revnos \in RevnoSets :
            QueryRevisionIds(tip, revnos)
    \/ \E tip \in BranchTips, revision_ids \in IdSets :
            QueryMainlineWhereMerged(tip, revision_ids)
    \/ \E tip \in BranchTips, start \in StartStopChoices,
          stop \in StartStopChoices, plan \in Plans :
            QueryIterMergeSorted(tip, start, stop, plan)

InitQuery == InitOn(QueryGraphs)

SpecQuery == InitQuery /\ [][NextQuery]_vars

(***************************************************************************)
(* Two Queriers on one store, their imports step by step                    *)
(***************************************************************************)
InImport == {"ancestry", "sort", "ranges", "commit"}

HoldsWriteLock(c) == writer = c

ViewOf(c) == View(db, qs[c].txn, HoldsWriteLock(c))

TipOf(c) == qs[c].q.branch_tip_rev_id

\* a Querier is constructed for a branch with this tip
Open(c, tip) ==
    /\ qs[c].pc = "new"
    /\ qs' = [qs EXCEPT ![c].pc = "idle", ![c].q = NewQuerier(db, tip)]
    /\ UNCHANGED <<graph, db, imports, done, modes, last, lock, writer>>

\* Querier.set_importer_lock with the lock the Queriers share
SetImporterLock(c) ==
    /\ qs[c].pc = "idle"
    /\ ~qs[c].importer_lock
    /\ qs' = [qs EXCEPT ![c].importer_lock = TRUE]
    /\ UNCHANGED <<graph, db, imports, done, modes, last, lock, writer>>

\* Querier.ensure_branch_tip up to the call of Querier._import_tip
CallEnsureBranchTip(c) ==
    /\ qs[c].pc = "idle"
    /\ LET what == EnsureDecision(db, qs[c].q)
       IN  \/ /\ what = "seen"
              /\ qs' = [qs EXCEPT ![c].q.tip_is_imported = TRUE]
              /\ UNCHANGED imports
           \/ /\ what = "import"
              /\ imports < MaxImports
              /\ imports' = imports + 1
              /\ qs' = [qs EXCEPT ![c].pc = "acquire", ![c].checked = db]
    /\ UNCHANGED <<graph, db, done, modes, last, lock, writer>>

\* Querier._import_tip: _importer_lock.acquire(), then the Importer is
\* constructed
Acquire(c) ==
    /\ qs[c].pc = "acquire"
    /\ qs[c].importer_lock => lock = "free"
    /\ lock' = AcquireImporterLock(lock, c, qs[c].importer_lock)
    /\ qs' = [qs EXCEPT ![c].pc = "ancestry", ![c].started = db,
                        ![c].pre = db,
                        ![c].unlocked = @ \/ ~qs[c].importer_lock]
    /\ UNCHANGED <<graph, db, imports, done, modes, last, writer>>

\* a phase of do_import leaves the connection's store as txn: a phase that
\* writes needs the database's write lock, which it keeps until the
\* transaction ends
Phase(c, phase, next_pc, txn) ==
    /\ qs[c].pc = phase
    /\ txn # ViewOf(c) => writer \in {"none", c}
    /\ writer' = IF txn # ViewOf(c) THEN c ELSE writer
    /\ qs' = [qs EXCEPT ![c].pc = next_pc, ![c].txn = txn,
                        ![c].pre = IF HoldsWriteLock(c) THEN @ ELSE db]
    /\ db' = CommittedAfter(phase, db, txn)
    /\ UNCHANGED <<graph, imports, done, modes, last, lock>>

\* Importer._update_ancestry
RunUpdateAncestry(c) ==
    /\ qs[c].pc = "ancestry"
    /\ \E txn \in {UpdateAncestry(ViewOf(c), graph, TipOf(c))} :
          Phase(c, "ancestry", "sort", txn)

\* topo_order and the insertion of the groups
SortAndInsert(c) ==
    /\ qs[c].pc = "sort"
    /\ \E m \in {IncrementalMergeSorted(ViewOf(c), TipOf(c))} :
          /\ m.err = ""
          /\ \E r \in {InsertMergeSorted(ViewOf(c), m.merge_sorted)} :
                 /\ r.err = ""
                 /\ Phase(c, "sort", "ranges", r.db)

\* Importer._build_one_mainline
Ranges(c) ==
    /\ qs[c].pc = "ranges"
    /\ \E txn \in {BuildOneMainline(ViewOf(c), TipOf(c))} :
          Phase(c, "ranges", "commit", txn)

\* do_import: _db_conn.commit()
Commit(c) ==
    /\ qs[c].pc = "commit"
    /\ db' = CommittedAfter("commit", db, ViewOf(c))
    /\ writer' = IF HoldsWriteLock(c) THEN "none" ELSE writer
    /\ qs' = [qs EXCEPT ![c].pc = "release"]
    /\ last' = [kind |-> "commit", by |-> c, tip |-> TipOf(c), pre |-> db,
                waiting |-> {x \in Queriers :
                                qs[x].pc = "acquire" /\ qs[x].importer_lock}]
    /\ done' = done \cup {TipOf(c)}
    /\ UNCHANGED <<graph, imports, modes, lock>>

\* Querier._import_tip after do_import has returned
Release(c) ==
    /\ qs[c].pc = "release"
    /\ lock' = ReleaseImporterLock(lock, c, qs[c].importer_lock)
    /\ qs' = [qs EXCEPT ![c].pc = "idle", ![c].q = AfterImportTip(db, @)]
    /\ UNCHANGED <<graph, db, imports, done, modes, last, writer>>

\* an error leaves do_import (the repository, the database or the sorter
\* raises): the finally block gives the lock back, the Importer and its
\* connection are dropped
Fail(c) ==
    /\ qs[c].pc \in {"ancestry", "sort", "ranges"}
    /\ db' = CommittedAfterFailure(db, ViewOf(c))
    /\ writer' = IF HoldsWriteLock(c) THEN "none" ELSE writer
    /\ lock' = ReleaseImporterLock(lock, c, qs[c].importer_lock)
    /\ qs' = [qs EXCEPT ![c].pc = "idle", ![c].txn = EmptyDb]
    /\ last' = [kind |-> "failed", by |-> c, tip |-> TipOf(c),
                phase |-> qs[c].pc,
                pre |-> IF HoldsWriteLock(c) THEN qs[c].pre ELSE db,
                started |-> qs[c].started,
                txn |-> ViewOf(c),
                waiting |-> {x \in Queriers :
                                qs[x].pc = "acquire" /\ qs[x].importer_lock},
                all_locked |-> \A x \in Queriers : ~qs[x].unlocked]
    /\ UNCHANGED <<graph, imports, done, modes>>

\* an idle Querier reads the store while the other one imports
ReadStore(c) ==
    /\ qs[c].pc = "idle"
    /\ \E x \in Queriers : qs[x].pc \in InImport
    /\ last' = [kind |-> "read", by |-> c,
                seen |-> View(db, qs[c].txn, HoldsWriteLock(c)),
                writing |-> {x \in Queriers : HoldsWriteLock(x)},
                pre |-> {qs[x].pre : x \in {y \in Queriers : HoldsWriteLock(y)}}]
    /\ UNCHANGED <<graph, db, imports, done, modes, qs, lock, writer>>

NextConcurrent ==
    \/ \E c \in Queriers, tip \in RevIds(graph) : Open(c, tip)
    \/ \E c \in Queriers : SetImporterLock(c)
    \/ \E c \in Queriers : CallEnsureBranchTip(c)
    \/ \E c \in Queriers : Acquire(c)
    \/ \E c \in Queriers : RunUpdateAncestry(c)
    \/ \E c \in Queriers : SortAndInsert(c)
    \/ \E c \in Queriers : Ranges(c)
    \/ \E c \in Queriers : Commit(c)
    \/ \E c \in Queriers : Release(c)
    \/ \E c \in Queriers : Fail(c)
    \/ \E c \in Queriers : ReadStore(c)

InitConcurrent == InitOn(ConcurrentGraphs)

SpecConcurrent == InitConcurrent /\ [][NextConcurrent]_vars

\* the steps of the thread that runs Querier c's ensure_branch_tip once it
\* has called _import_tip
ImportStep(c) ==
    \/ Acquire(c)
    \/ Fail(c)
    \/ Commit(c)
    \/ Release(c)
    \/ RunUpdateAncestry(c)
    \/ SortAndInsert(c)
    \/ Ranges(c)

\* every thread that can take a step of its import takes one in the end
SpecThreads ==
    InitConcurrent /\ [][NextConcurrent]_vars
        /\ \A c \in Queriers : WF_vars(ImportStep(c))

(***************************************************************************)
(* Imports of a long linear history, for the mainline ranges                *)
(***************************************************************************)
\* the length of the linear history
MaxMainline == 250

\* the tips imported are the multiples of TipStep, the newest revision and
\* the head of the first full range
TipStep == 30

\* the number of imports of a run over the linear history
MaxRangeImports == 3

\* revision r has the single parent r - 1, revision 1 has none
LinearGraph(n) == [r \in 1..n |-> IF r = 1 THEN <<>> ELSE <<r - 1>>]

LinearTips ==
    {k * TipStep : k \in 1..(MaxMainline \div TipStep)}
        \cup {MaxMainline, _MAINLINE_PARENT_RANGE_LEN}

\* the rows Importer._import_tip writes for the revisions of a linear
\* history up to tip that the store does not hold yet: revision r gets the
\* db_id r and the gdfo r, its parent row, and the dotted_revno row of a
\* mainline revision that merges nothing
ExtendLinear(d, tip) ==
    LET new == (Len(d.revision) + 1)..tip
    IN  [d EXCEPT
           !.revision = [r \in 1..Max(Len(d.revision), tip) |->
                            [revision_id |-> r, gdfo |-> r]],
           !.parent = @ \cup {<<r, r - 1, 0>> : r \in new \ {1}},
           !.dotted_revno = @ \cup
               {[tip_revision |-> r, merged_revision |-> r,
                 revno |-> RevnoToStr(<<r>>), end_of_merge |-> r = 1,
                 merge_depth |-> 0, dist |-> 0] : r \in new}]

\* no import of the linear history is under way
NoImportLinear == last.kind # "collect"

\* Importer._import_tip on the linear history up to the first loop of
\* _build_one_mainline: the rows are written, range_db_ids is empty and
\* cur_db_id is the tip
StartImportLinear(tip) ==
    /\ NoImportLinear
    /\ imports < MaxRangeImports
    /\ db' = ExtendLinear(db, tip)
    /\ last' = [kind |-> "collect", tip |-> tip, range_db_ids |-> <<>>,
                cur_db_id |-> GetDbId(ExtendLinear(db, tip), tip),
                pre_ranges |-> Len(db.mainline_parent_range),
                pre_revisions |-> Len(db.revision)]
    /\ imports' = imports + 1
    /\ UNCHANGED <<graph, done, modes, qs, lock, writer>>

\* one turn of the first loop of _build_one_mainline at a revision where no
\* range starts
CollectRevision ==
    /\ last.kind = "collect"
    /\ last.cur_db_id # None
    /\ GetMainlineRangeCount(db, last.cur_db_id) = None
    /\ last' = [last EXCEPT
                  !.range_db_ids = Append(@, last.cur_db_id),
                  !.cur_db_id = GetLhParentDbId(db, last.cur_db_id)]
    /\ UNCHANGED <<graph, db, imports, done, modes, qs, lock, writer>>

\* the first loop of _build_one_mainline ends, at the end of history or at
\* a revision where a range starts, and the second loop inserts the ranges
InsertCollected ==
    /\ last.kind = "collect"
    /\ last.cur_db_id = None
          \/ GetMainlineRangeCount(db, last.cur_db_id) # None
    /\ \E c \in {CollectMainline(db, last.cur_db_id, last.range_db_ids)} :
          db' = InsertRanges(db, c.range_db_ids, c.cur_db_id)
    /\ last' = [kind |-> "import_linear", tip |-> last.tip,
                collected |-> Len(last.range_db_ids),
                stopped_at |-> last.cur_db_id,
                pre_ranges |-> last.pre_ranges,
                pre_revisions |-> last.pre_revisions]
    /\ done' = done \cup {last.tip}
    /\ UNCHANGED <<graph, imports, modes, qs, lock, writer>>

NextRanges ==
    \/ \E tip \in LinearTips : StartImportLinear(tip)
    \/ CollectRevision
    \/ InsertCollected

InitRanges == InitOn({LinearGraph(MaxMainline)})

SpecRanges == InitRanges /\ [][NextRanges]_vars

(***************************************************************************)
(* An import on top of a store whose numbering was damaged from outside     *)
(***************************************************************************)
\* a branch from A=1 that is merged twice: B=2, C=3 (from A), D=4 merges C
\* into B, E=5 continues C, F=6 merges E into D
MergedTwice == << <<>>, <<1>>, <<1>>, <<2, 3>>, <<3>>, <<4, 5>> >>

DamagedGraphs == {MergedTwice, SubSeq(Linear, 1, 3)}

\* the store as one import left it, not damaged yet
Intact == last.kind = "import" /\ last.err = "" /\ imports = 1

\* a dotted_revno row is lost
LoseDottedRevno(row) ==
    /\ Intact
    /\ row \in db.dotted_revno
    /\ db' = [db EXCEPT !.dotted_revno = @ \ {row}]
    /\ last' = [kind |-> "damage", what |-> "dotted_revno", row |-> row,
                db_id |-> row.merged_revision]
    /\ UNCHANGED <<graph, imports, done, modes, qs, lock, writer>>

\* the gdfo of a revision is overwritten with one that contradicts a parent
\* row: not above the gdfo of a parent, or not below the gdfo of a child
WriteGdfo(db_id, gdfo) ==
    /\ Intact
    /\ db_id \in 1..Len(db.revision)
    /\ \E e \in db.parent :
          \/ e[1] = db_id /\ gdfo <= GdfoOf(db, e[2])
          \/ e[2] = db_id /\ GdfoOf(db, e[1]) <= gdfo
    /\ db' = [db EXCEPT !.revision[db_id].gdfo = gdfo]
    /\ last' = [kind |-> "damage", what |-> "gdfo", row |-> db.revision[db_id],
                db_id |-> db_id]
    /\ UNCHANGED <<graph, imports, done, modes, qs, lock, writer>>

\* the first import, and the incremental import that follows the damage
ImportAroundDamage(tip) ==
    /\ imports = 0 \/ last.kind = "damage"
    /\ Import(tip, TRUE)

NextDamaged ==
    \/ \E tip \in RevIds(graph) : ImportAroundDamage(tip)
    \/ \E row \in db.dotted_revno : LoseDottedRevno(row)
    \/ \E db_id \in 1..Len(db.revision), gdfo \in 1..Len(graph) :
          WriteGdfo(db_id, gdfo)

InitDamaged == InitOn(DamagedGraphs)

SpecDamaged == InitDamaged /\ [][NextDamaged]_vars

(***************************************************************************)
(* Imports under a progress callback                                        *)
(***************************************************************************)
\* the messages of the pb.update calls of an import
ProgressCalls ==
    {"getting merge_sorted", "Finding ancestry", "allocating revisions",
     "updating parents", "importing"}

\* the pb.update calls an import makes
CallsMade(incremental) ==
    IF incremental
    THEN {"getting merge_sorted", "Finding ancestry", "importing"}
    ELSE {"getting merge_sorted", "allocating revisions", "updating parents",
          "importing"}

\* Importer._import_tip under a progress bar whose callback answers "cancel"
\* at the call cancel_at: what pb.update returns is not looked at
ImportTipWithProgress(d, g, tip_revision_id, incremental, cancel_at) ==
    ImportTip(d, g, tip_revision_id, incremental)

\* do_import under the progress callback
ImportWithProgress(tip, incremental, cancel_at) ==
    /\ imports < MaxImports
    /\ \E r \in {ImportTipWithProgress(db, graph, tip, incremental,
                                        cancel_at)} :
           /\ db' = IF r.err = "" THEN r.db ELSE db
           /\ last' = [kind |-> "import", tip |-> tip,
                       incremental |-> incremental, pre |-> db,
                       err |-> r.err, cancel_at |-> cancel_at]
           /\ done' = IF r.err = "" THEN done \cup {tip} ELSE done
    /\ imports' = imports + 1
    /\ modes' = modes \cup {incremental}
    /\ UNCHANGED <<graph, qs, lock, writer>>

NextProgress ==
    \E tip \in RevIds(graph), incremental \in BOOLEAN,
       cancel_at \in ProgressCalls \cup {"never"} :
        ImportWithProgress(tip, incremental, cancel_at)

InitProgress == InitOn(ConcurrentGraphs)

SpecProgress == InitProgress /\ [][NextProgress]_vars

(***************************************************************************)
(* Imports of histories whose branches are merged late or in pieces         *)
(***************************************************************************)
\* a branch from the first revision merged after three mainline revisions:
\* A=1, B=2, C=3, D=4, X=5 (from A), E=6 merges X into D
LateMerge == << <<>>, <<1>>, <<2>>, <<3>>, <<1>>, <<4, 5>> >>

\* a branch merged in pieces while another branch of the same base is
\* merged between two pieces: A=1, B=2, X=3 (from A), C=4 merges X, Z=5
\* (from A), D=6 merges Z, X1=7 (from X), E=8 merges X1, X2=9 (from X1),
\* F=10 merges X2, Y=11 (from X1), G=12 merges Y
MergedInPieces ==
    << <<>>, <<1>>, <<1>>, <<2, 3>>, <<1>>, <<4, 5>>, <<3>>, <<6, 7>>,
       <<7>>, <<8, 9>>, <<7>>, <<10, 11>> >>

\* a branch from the first revision with a side chain, merged after three
\* mainline revisions: A=1, B=2, C=3, D=4, P=5 (from A), Q=6 (from P), R=7
\* (from Q), Y=8 merges R into P, T=9 merges Y into D
SideChain ==
    << <<>>, <<1>>, <<2>>, <<3>>, <<1>>, <<5>>, <<6>>, <<5, 7>>, <<4, 8>> >>

SortGraphs == {LateMerge, MergedInPieces, SideChain}

InitSort == InitOn(SortGraphs)

SpecSort == InitSort /\ [][Next]_vars

(***************************************************************************)
(* topo_order one loop turn at a time.  The sorter is kept in last.ms, what *)
(* the running loop holds in last.unknown and last.missing, and last.turns  *)
(* counts the turns of each loop.                                           *)
(***************************************************************************)
MaxTopoImports == 1

TopoGraphs ==
    {LateMerge, MergedInPieces, SideChain, TwoRoots, GhostParents, CrissCross}

NoTurns ==
    [search |-> 0, unknown |-> 0, ensure |-> 0, latest |-> 0, number |-> 0]

\* the turns are counted up to MaxTurns
MaxTurns == 3

Bump(n) == IF n < MaxTurns THEN n + 1 ELSE n

TopoRuns == last.kind = "topo"

\* the store is filled by an import before the sorter is run
ImportBeforeTopo(tip) ==
    /\ ~TopoRuns
    /\ imports < MaxTopoImports
    /\ Import(tip, FALSE)

\* _get_merge_sorted_tip up to the first loop of topo_order: _update_ancestry,
\* _IncrementalMergeSort.__init__, _find_needed_mainline and
\* _get_initial_search_tips
TopoStart(tip) ==
    /\ ~TopoRuns
    /\ \E d1 \in {UpdateAncestry(db, graph, tip)} :
          /\ db' = d1
          /\ last' = [kind |-> "topo", tip |-> tip, pc |-> "search",
                      ms |-> GetInitialSearchTips(d1,
                                FindNeededMainline(d1,
                                    IMSInit(GetDbId(d1, tip)))),
                      unknown |-> {}, missing |-> {}, turns |-> NoTurns]
    /\ UNCHANGED <<graph, imports, done, modes, qs, lock, writer>>

\* missing_parent_ids of _ensure_lh_parent_info before its loop
MissingParentIds(d, ms) ==
    {GetLhParentDbId(d, x) : x \in
        {y \in ms.interesting_ancestor_ids :
            /\ GetLhParentDbId(d, y) # None
            /\ GetLhParentDbId(d, y) \notin ms.interesting_ancestor_ids
            /\ GetLhParentDbId(d, y) \notin DOMAIN ms.imported_dotted_revno}}
        \ ms.ghosts

\* the test of "while self._search_tips": the tips become the unknown ones,
\* or the search is over and _ensure_lh_parent_info starts
SearchTipsTurn ==
    /\ TopoRuns
    /\ last.pc = "search"
    /\ last' = IF last.ms.search_tips = {}
               THEN [last EXCEPT !.pc = "ensure",
                                 !.missing = MissingParentIds(db, last.ms),
                                 !.turns.search = Bump(@)]
               ELSE [last EXCEPT !.pc = "unknown",
                                 !.unknown = last.ms.search_tips,
                                 !.turns.search = Bump(@)]
    /\ UNCHANGED <<graph, db, imports, done, modes, qs, lock, writer>>

\* a turn of "while unknown": the gdfo filter, the children filter, and a
\* step of the mainline when tips are still unknown; when no tip is left
\* unknown the search tips are stepped (_step_search_tips)
UnknownTurn ==
    /\ TopoRuns
    /\ last.pc = "unknown"
    /\ \E a \in {SplitSearchTipsByGdfo(last.ms, last.unknown)} :
       \E c \in {IF a.unknown = {} \/ a.ms.err # "" THEN a
                 ELSE SplitInterestingUsingChildren(db, a.ms, a.unknown)} :
       \E b \in {IF a.unknown = {} \/ a.ms.err # "" THEN a
                 ELSE NoteChildrenCall(a, c)} :
       \E r \in {IF b.unknown = {} \/ b.ms.err # "" THEN b
                 ELSE [ms |-> StepMainline(db, b.ms),
                       unknown |-> b.unknown]} :
          last' = IF r.ms.err # ""
                  THEN [last EXCEPT !.pc = "failed", !.ms = r.ms]
                  ELSE IF r.unknown = {}
                  THEN [last EXCEPT !.pc = "search",
                                    !.ms = StepSearchTips(db, r.ms),
                                    !.unknown = {},
                                    !.turns.unknown = Bump(@)]
                  ELSE [last EXCEPT !.ms = r.ms, !.unknown = r.unknown,
                                    !.turns.unknown = Bump(@)]
    /\ UNCHANGED <<graph, db, imports, done, modes, qs, lock, writer>>

\* the start of _compute_merge_sort
StartMergeSort(d, ms) ==
    IF ms.mainline_db_ids = <<>> THEN ms
    ELSE PushNode(d, ms, ms.mainline_db_ids[1], 0)

\* a turn of "while missing_parent_ids": a step of the mainline; when no
\* parent is missing _compute_merge_sort starts
EnsureLhParentTurn ==
    /\ TopoRuns
    /\ last.pc = "ensure"
    /\ \E ms1 \in {IF last.missing = {} THEN StartMergeSort(db, last.ms)
                    ELSE StepMainline(db, last.ms)} :
          last' = IF last.missing = {}
                  THEN [last EXCEPT !.pc = "number", !.ms = ms1]
                  ELSE [last EXCEPT
                          !.ms = ms1,
                          !.missing = @ \ DOMAIN ms1.imported_dotted_revno,
                          !.turns.ensure = Bump(@)]
    /\ UNCHANGED <<graph, db, imports, done, modes, qs, lock, writer>>

\* the node on top of the stack has no parent left to visit
ReadyToPop(ms) ==
    /\ ms.depth_first_stack # <<>>
    /\ Last(ms.depth_first_stack).left_pending_parent = None
    /\ Last(ms.depth_first_stack).pending_parents = <<>>

\* the argument _pop_node gives _step_to_latest_branch for a node: 0 for a
\* new root, the base of the parent's revno for a later child of a merged
\* revision, None when _step_to_latest_branch is not called
LatestBase(ms, node) ==
    IF node.left_parent = None THEN 0
    ELSE IF node.left_parent \notin DOMAIN ms.imported_dotted_revno THEN None
    ELSE IF ~node.is_first
            /\ Len(ms.imported_dotted_revno[node.left_parent][1]) > 1
    THEN ms.imported_dotted_revno[node.left_parent][1][1]
    ELSE None

\* the test of the loop of _step_to_latest_branch
LatestNotLoaded(ms, base_revno) ==
    /\ base_revno # None
    /\ ms.imported_mainline_id # None
    /\ <<base_revno>> \notin ms.known_dotted
    /\ <<base_revno, Get(ms.revno_to_branch_count, base_revno, 0), 1>>
            \notin ms.known_dotted

\* a turn of the loop of _step_to_latest_branch, called by _pop_node
StepToLatestTurn ==
    /\ TopoRuns
    /\ last.pc = "number"
    /\ ReadyToPop(last.ms)
    /\ LatestNotLoaded(last.ms,
                       LatestBase(last.ms, Last(last.ms.depth_first_stack)))
    /\ last' = [last EXCEPT !.ms = StepMainline(db, last.ms),
                            !.turns.latest = Bump(@)]
    /\ UNCHANGED <<graph, db, imports, done, modes, qs, lock, writer>>

\* a turn of "while self._depth_first_stack": the node on top is popped
\* (_step_to_latest_branch has nothing left to load), or its next pending
\* parent is visited; with an empty stack topo_order returns
MergeSortTurn ==
    /\ TopoRuns
    /\ last.pc = "number"
    /\ ~(/\ ReadyToPop(last.ms)
         /\ LatestNotLoaded(last.ms,
                LatestBase(last.ms, Last(last.ms.depth_first_stack))))
    /\ \E ms1 \in {IF last.ms.depth_first_stack = <<>> THEN last.ms
                    ELSE IF ReadyToPop(last.ms) THEN PopNode(db, last.ms)
                    ELSE VisitParent(db, last.ms)} :
          last' = IF ms1.err # ""
                  THEN [last EXCEPT !.pc = "failed", !.ms = ms1]
                  ELSE IF last.ms.depth_first_stack = <<>>
                  THEN [last EXCEPT !.pc = "done"]
                  ELSE [last EXCEPT !.ms = ms1, !.turns.number = Bump(@)]
    /\ UNCHANGED <<graph, db, imports, done, modes, qs, lock, writer>>

\* the turns of the loops of topo_order
TopoTurn ==
    \/ SearchTipsTurn
    \/ UnknownTurn
    \/ EnsureLhParentTurn
    \/ StepToLatestTurn
    \/ MergeSortTurn

NextTopo ==
    \/ \E tip \in RevIds(graph) : ImportBeforeTopo(tip)
    \/ \E tip \in RevIds(graph) : TopoStart(tip)
    \/ TopoTurn

InitTopo == InitOn(TopoGraphs)

\* a call that runs goes on running: no turn that can be taken is put off
\* for ever
SpecTopo == InitTopo /\ [][NextTopo]_vars /\ WF_vars(TopoTurn)

(***************************************************************************)
(* Reading the stored numbering back                                        *)
(***************************************************************************)
\* the dotted_revno rows of one tip as merge-sort nodes keyed by revision id
GroupNodes(d, tip_db_id) ==
    LET rows == DottedRows(d, tip_db_id)
    IN  [i \in 1..Len(rows) |->
            [key |-> RevIdOf(d, rows[i].merged_revision),
             merge_depth |-> rows[i].merge_depth,
             revno |-> StrToRevno(rows[i].revno),
             end_of_merge |-> rows[i].end_of_merge]]

\* the stored groups of the mainline from db_id downwards, one left-hand
\* parent at a time
RECURSIVE StoredMergeSorted(_, _)
StoredMergeSorted(d, db_id) ==
    IF db_id = None THEN <<>>
    ELSE GroupNodes(d, db_id)
            \o StoredMergeSorted(d, GetLhParentDbId(d, db_id))

IncrementalImportDone ==
    last.kind = "import" /\ last.incremental /\ last.err = ""

\* C1: the nodes returned by topo_order for the new tip, followed by the
\* stored merge-sorted groups of the mainline from t_imp downwards, are the
\* reference merge sort of the tip's ancestry (same revisions, same order,
\* same revno, merge_depth and end_of_merge)
C1_IncrementalEqualsFull ==
    IncrementalImportDone =>
        last.merge_sorted
            \o StoredMergeSorted(last.pre, GetDbId(last.pre, last.t_imp))
        = MergeSort(graph, last.tip)

\* an incremental import that numbered new revisions, among them a merged
\* one, on top of an imported mainline
C1_Witness ==
    /\ IncrementalImportDone
    /\ last.t_imp # None
    /\ \E i \in 1..Len(last.merge_sorted) :
            last.merge_sorted[i].merge_depth > 0

\* the revisions that are imported tips of the store
ImportedTips(d) ==
    {r.tip_revision : r \in {x \in d.dotted_revno :
                                x.tip_revision = x.merged_revision}}

\* the rows whose tip column is tip_db_id, in ascending dist, by revision id
GroupRows(d, tip_db_id) ==
    LET rows == DottedRows(d, tip_db_id)
    IN  [i \in 1..Len(rows) |->
            [key |-> RevIdOf(d, rows[i].merged_revision),
             merge_depth |-> rows[i].merge_depth,
             revno |-> StrToRevno(rows[i].revno),
             end_of_merge |-> rows[i].end_of_merge,
             dist |-> rows[i].dist]]

\* the nodes from index i to index j of a merge sort with dist counted from
\* 0 at index i
WithDist(nodes, i, j) ==
    [k \in 1..(j - i + 1) |->
        [key |-> nodes[i + k - 1].key,
         merge_depth |-> nodes[i + k - 1].merge_depth,
         revno |-> nodes[i + k - 1].revno,
         end_of_merge |-> nodes[i + k - 1].end_of_merge,
         dist |-> k - 1]]

RowCount(d, tip_db_id) ==
    Cardinality({r \in d.dotted_revno : r.tip_revision = tip_db_id})

\* C2 as stated: the rows whose tip column is t are the whole merge sort of
\* t's ancestry, one row per ancestor, dist counted from t
C2_RowsOfTipAreFullSort ==
    \A t \in ImportedTips(db) :
        LET ms == MergeSort(graph, RevIdOf(db, t))
        IN  GroupRows(db, t) = WithDist(ms, 1, Len(ms))

\* C2, amended: for every imported tip t the rows whose tip column is t are
\* the leading group of the merge sort of t (t and the revisions it merged,
\* up to the next mainline revision) with dist counted inside the group,
\* and the groups of t's mainline, newest first, are the whole merge sort of
\* t's ancestry
C2_GroupsAreFullSort ==
    \A t \in ImportedTips(db) :
        LET ms == MergeSort(graph, RevIdOf(db, t))
        IN  /\ RowCount(db, t) = GroupEnd(ms, 1)
            /\ GroupRows(db, t) = WithDist(ms, 1, GroupEnd(ms, 1))
            /\ StoredMergeSorted(db, t) = ms

\* a tip with merged revisions and an older mainline was imported after an
\* earlier import
C2_Witness ==
    /\ last.kind = "import" /\ last.err = "" /\ imports > 1
    /\ LET t == GetDbId(db, last.tip)
       IN  /\ t \in ImportedTips(db)
           /\ RowCount(db, t) > 1
           /\ GetLhParentDbId(db, t) \in ImportedTips(db)

\* C3: do_import of a tip for which do_import has already run, in either
\* mode, changes no table
C3_ReimportChangesNothing ==
    [][(imports' # imports /\ last'.tip \in done) => db' = db]_vars

\* a tip with a mainline of several revisions was imported a second time
C3_Witness ==
    /\ last.kind = "import" /\ last.tip \in done /\ imports > 1
    /\ last.pre = db
    /\ GetLhParentDbId(db, GetDbId(db, last.tip)) # None

\* the mainline read back through the ranges: the members of the best range
\* in ascending dist, then on from its tail (a single revision and its
\* left-hand parent where no range starts)
RECURSIVE MainlineByRanges(_, _)
MainlineByRanges(d, db_id) ==
    IF db_id = None THEN <<>>
    ELSE LET r == GetRangeKeyAndTail(d, db_id)
         IN  (IF r.range_key = None THEN <<db_id>>
              ELSE RangeMembers(d, r.range_key))
             \o MainlineByRanges(d, r.tail)

\* the mainline walked one left-hand parent at a time
RECURSIVE MainlineByParents(_, _)
MainlineByParents(d, db_id) ==
    IF db_id = None THEN <<>>
    ELSE <<db_id>> \o MainlineByParents(d, GetLhParentDbId(d, db_id))

RevIdsOf(d, db_ids) == [i \in 1..Len(db_ids) |-> RevIdOf(d, db_ids[i])]

\* the store after importing tip once, incrementally, into an empty store
FromScratch(tip) == DoImport(EmptyDb, graph, tip, TRUE)

\* the dotted_revno rows of every mainline revision of tip are the same, by
\* revision identifier, in stores a and b
SameMainlineRows(a, b, tip) ==
    LET ma == RevIdsOf(a, MainlineByParents(a, GetDbId(a, tip)))
        mb == RevIdsOf(b, MainlineByParents(b, GetDbId(b, tip)))
    IN  /\ ma = mb
        /\ \A i \in 1..Len(ma) :
              GroupRows(a, GetDbId(a, ma[i])) = GroupRows(b, GetDbId(b, ma[i]))

SameMainlineByRanges(a, b, tip) ==
    RevIdsOf(a, MainlineByRanges(a, GetDbId(a, tip)))
        = RevIdsOf(b, MainlineByRanges(b, GetDbId(b, tip)))

\* the last import was the second or a later one of a run of incremental
\* imports, the earlier ones being of older revisions of the tip's history
SeveralIncrementalSteps ==
    /\ IncrementalImportDone
    /\ modes = {TRUE}
    /\ imports > 1
    /\ (done \ {last.tip}) # {}
    /\ done \subseteq Ancestry(graph, last.tip)

\* C4: a tip imported in several incremental steps leaves, by revision
\* identifier, the same dotted_revno rows for every mainline revision and the
\* same mainline sequence read back through the ranges as importing it once
\* into an empty store
C4_IncrementalEqualsFromScratch ==
    SeveralIncrementalSteps =>
        /\ SameMainlineRows(db, FromScratch(last.tip), last.tip)
        /\ SameMainlineByRanges(db, FromScratch(last.tip), last.tip)

(***************************************************************************)
(* Transactions, the importer lock and failures                             *)
(***************************************************************************)
\* C5: the committed store changes only when an import commits, and then
\* from the store before the import to the store with all of the import's
\* rows (ancestry, numbering and ranges); a reader that runs while an import
\* holds uncommitted rows sees the store that import started from
C5_AtomicVisibility ==
    /\ [][db' # db =>
            \E c \in Queriers :
                /\ qs[c].pc = "commit"
                /\ db' = DoImport(db, graph, TipOf(c), TRUE)]_vars
    /\ [](last.kind = "read" => \A p \in last.pre : last.seen = p)

\* a reader ran while an import held the uncommitted rows of its three
\* phases on top of an earlier import
C5_Witness ==
    /\ last.kind = "read"
    /\ last.seen # EmptyDb
    /\ \E c \in Queriers :
          /\ HoldsWriteLock(c)
          /\ qs[c].pc = "commit"
          /\ qs[c].txn # db
          /\ qs[c].txn.dotted_revno # db.dotted_revno
          /\ last.pre = {qs[c].pre}

\* C6 as stated: at most one Importer runs at any time, whatever Queriers
\* start them
C6_OneImporterAtATime ==
    Cardinality({c \in Queriers : qs[c].pc \in InImport}) <= 1

\* C6, amended: a Querier that was given the lock holds it from before its
\* Importer is constructed until do_import has returned, so the imports of
\* Queriers that share the lock never overlap
C6_LockedImportsExclusive ==
    /\ \A c \in Queriers :
          qs[c].importer_lock /\ qs[c].pc \in InImport \cup {"release"}
              => lock = c
    /\ Cardinality({c \in Queriers :
                       /\ qs[c].importer_lock
                       /\ qs[c].pc \in InImport \cup {"release"}}) <= 1

\* a Querier with the lock waits for it while the other one, with the lock,
\* is in the middle of its import
C6_Witness ==
    \E c1, c2 \in Queriers :
        /\ c1 # c2
        /\ qs[c1].importer_lock /\ qs[c2].importer_lock
        /\ qs[c1].pc = "sort" /\ lock = c1
        /\ qs[c2].pc = "acquire"

\* C7 as stated: an import that meets the uniqueness violation leaves the
\* store as it was before the import and returns without error
C7_ViolationRollsBack ==
    last.kind = "import" /\ last.violation =>
        last.err = "" /\ db = last.pre

\* the index of the first mainline node of nodes, from index i on, that is an
\* imported tip of store d (Len(nodes) + 1 when there is none)
RECURSIVE FirstRefused(_, _, _)
FirstRefused(d, nodes, i) ==
    IF i > Len(nodes) THEN i
    ELSE IF nodes[i].merge_depth = 0
            /\ GetDbId(d, nodes[i].key) \in ImportedTips(d)
    THEN i
    ELSE FirstRefused(d, nodes, i + 1)

\* C7, amended: an import that meets the uniqueness violation returns
\* without error and rolls nothing back: the rows of the store before the
\* import are kept, the groups newer than the refused one are committed
\* with the numbering of the merge sort, no row is written for the refused
\* group or an older one, and the tip has its range
C7_ViolationKeepsEarlierGroups ==
    last.kind = "import" /\ last.violation =>
        LET nodes == last.merge_sorted
            n == FirstRefused(last.pre, nodes, 1)
            mainline == {i \in 1..(n - 1) : nodes[i].merge_depth = 0}
        IN  /\ last.err = ""
            /\ n <= Len(nodes)
            /\ last.pre.dotted_revno \subseteq db.dotted_revno
            /\ \A i \in mainline :
                  GroupRows(db, GetDbId(db, nodes[i].key))
                      = WithDist(nodes, i, GroupEnd(nodes, i))
            /\ {RevIdOf(db, r.tip_revision) :
                    r \in db.dotted_revno \ last.pre.dotted_revno}
                  = {nodes[i].key : i \in mainline}
            /\ GetMainlineRangeCount(db, GetDbId(db, last.tip)) # None

\* an import wrote the groups of two new mainline revisions before the
\* violation
C7_Witness ==
    /\ last.kind = "import" /\ last.violation /\ last.err = ""
    /\ Cardinality({r.tip_revision :
                       r \in db.dotted_revno \ last.pre.dotted_revno}) > 1
    /\ Cardinality(db.dotted_revno \ last.pre.dotted_revno) > 2

\* C8: when an error leaves an import, the committed store is the store the
\* import's transaction started from; it is the store the import itself
\* started from when every Querier imports under the lock
C8_FailureCommitsNothing ==
    last.kind = "failed" =>
        /\ db = last.pre
        /\ last.all_locked => db = last.started

\* an import failed after it had written its ancestry and numbering on top
\* of an earlier import
C8_Witness ==
    /\ last.kind = "failed"
    /\ last.phase = "ranges"
    /\ db # EmptyDb
    /\ last.txn.dotted_revno # db.dotted_revno
    /\ last.txn.revision # db.revision

(***************************************************************************)
(* Queries                                                                  *)
(***************************************************************************)
\* C9: whenever a read method has read the numbering of the store, the
\* Querier's branch tip is an imported tip
C9_ReadsFollowEnsure ==
    last.kind \in QueryKinds /\ last.err = "" /\ last.steps # <<>> =>
        GetDbId(db, last.tip) \in ImportedTips(db)

\* the revno the reference merge sort of tip gives each of the revisions
RevnosOf(g, tip, revision_ids) ==
    IF tip = NULL_REVISION THEN {}
    ELSE LET ms == MergeSort(g, tip)
         IN  {<<ms[i].key, ms[i].revno>> :
                 i \in {j \in 1..Len(ms) : ms[j].key \in revision_ids}}

\* C10: get_dotted_revnos returns, for the requested revisions in the
\* ancestry of the branch tip, the revno of the reference merge sort of the
\* tip, and nothing for the other requested revisions; every step of its
\* walk starts at a mainline revision with revisions left to resolve, and it
\* ends with all of them resolved or the mainline exhausted
C10_DottedRevnosAreFullSort ==
    last.kind = "get_dotted_revnos" /\ last.err = "" =>
        /\ last.revnos = RevnosOf(graph, last.tip, last.revision_ids)
        /\ \A i \in 1..Len(last.steps) :
              last.steps[i][1] # None /\ last.steps[i][2] # {}
        /\ last.tip_db_id = None \/ last.db_ids = {}

\* a query that imported its tip on top of an earlier import, resolved a
\* merged revision, and exhausted the mainline for a revision of the store
\* outside the tip's ancestry
C10_Witness ==
    /\ last.kind = "get_dotted_revnos" /\ last.err = ""
    /\ last.pre # EmptyDb /\ last.pre # db
    /\ last.steps # <<>>
    /\ \E x \in last.revnos : Len(x[2]) > 1
    /\ Cardinality(last.revision_ids) > 1
    /\ last.db_ids # {} /\ last.tip_db_id = None

\* C11: get_revision_ids is the inverse of get_dotted_revnos for one branch
\* tip: each revno get_dotted_revnos returns for a revision maps back to that
\* revision and to no other, and each revision get_revision_ids returns for
\* a revno has that revno and no other
C11_RevisionIdsInvertDottedRevnos ==
    /\ last.kind = "get_dotted_revnos" /\ last.err = "" =>
          \A e \in last.revnos :
              GetRevisionIds(db, graph, NewQuerier(db, last.tip),
                             {e[2]}).res.revno_map = {<<e[2], e[1]>>}
    /\ last.kind = "get_revision_ids" /\ last.err = "" =>
          /\ \A e \in last.revno_map :
                /\ e[1] \in last.revnos
                /\ GetDottedRevnos(db, graph, NewQuerier(db, last.tip),
                                   {e[2]}).res.revnos = {<<e[2], e[1]>>}
          /\ \A n \in last.revnos :
                Cardinality({e \in last.revno_map : e[1] = n})
                    = Cardinality({x \in RevnosOf(graph, last.tip,
                                                  Ancestry(graph, last.tip)) :
                                      x[2] = n})

\* get_revision_ids imported its tip on top of an earlier import and mapped
\* two revnos, one of them dotted, back to their revisions
C11_Witness ==
    /\ last.kind = "get_revision_ids" /\ last.err = ""
    /\ last.pre # EmptyDb /\ last.pre # db
    /\ Cardinality(last.revno_map) = 2
    /\ \E e \in last.revno_map : Len(e[1]) > 1

\* the left-hand-parent chain of r in the graph, r first
RECURSIVE Mainline(_, _)
Mainline(g, r) ==
    IF r = NULL_REVISION \/ IsGhost(g, r) THEN <<>>
    ELSE <<r>> \o (IF g[r] = <<>> THEN <<>> ELSE Mainline(g, g[r][1]))

\* the oldest revision of the mainline of tip that has r in its ancestry
WhereMerged(g, tip, r) ==
    LET ml == Mainline(g, tip)
        i == CHOOSE k \in 1..Len(ml) :
                /\ r \in Ancestry(g, ml[k])
                /\ \A j \in (k + 1)..Len(ml) : r \notin Ancestry(g, ml[j])
    IN  ml[i]

\* C12: get_mainline_where_merged maps every requested revision of the
\* ancestry of the branch tip to the oldest mainline revision that has it in
\* its ancestry, and maps no other requested revision
C12_MainlineWhereMerged ==
    last.kind = "get_mainline_where_merged" /\ last.err = "" =>
        last.revision_to_mainline_map =
            {<<r, WhereMerged(graph, last.tip, r)>> :
                r \in last.revision_ids \cap Ancestry(graph, last.tip)}

\* get_mainline_where_merged found, by a range jump, the mainline revision
\* that merged a requested revision, and a requested mainline revision
C12_Witness ==
    /\ last.kind = "get_mainline_where_merged" /\ last.err = ""
    /\ \E i \in 1..Len(last.steps) : last.steps[i].range_key # None
    /\ \E e \in last.revision_to_mainline_map : e[1] # e[2]
    /\ \E e \in last.revision_to_mainline_map : e[1] = e[2]

\* the index of the first node of nodes at or after index i whose key is
\* key, Len(nodes) + 1 when there is none
RECURSIVE IndexFrom(_, _, _)
IndexFrom(nodes, key, i) ==
    IF i > Len(nodes) \/ nodes[i].key = key THEN i
    ELSE IndexFrom(nodes, key, i + 1)

\* the nodes of the merge sort of tip from start (the tip when start is not
\* given) up to the node before stop
SliceOfMergeSort(g, tip, start, stop) ==
    LET ms == MergeSort(g, tip)
        from == IndexFrom(ms, IF start = None THEN tip ELSE start, 1)
        to == IF stop = None THEN Len(ms) + 1 ELSE IndexFrom(ms, stop, from)
    IN  SubSeq(ms, from, to - 1)

\* C13: iter_merge_sorted_revisions returns the rows of the merge-sorted
\* order of the branch tip from start (the tip when start is not given) up to
\* the row before stop, or up to the end of history when stop is not given
\* or is not met after start
C13_IterIsSliceOfMergeSort ==
    /\ last.kind = "iter_merge_sorted_revisions"
    /\ last.err = ""
    /\ last.tip # NULL_REVISION
    /\ last.start = None \/ last.start \in Ancestry(graph, last.tip)
    => last.merge_sorted
          = SliceOfMergeSort(graph, last.tip, last.start, last.stop)

\* C14: walk_mainline of an imported branch tip returns the mainline of the
\* tip, the same sequence as walking one left-hand parent at a time
C14_WalkMainlineByParents ==
    /\ last.kind = "walk_mainline"
    /\ GetDbId(db, last.tip) \in ImportedTips(db)
    => /\ last.err = ""
       /\ last.steps = MainlineByParents(db, GetDbId(db, last.tip))

(***************************************************************************)
(* The stored ranges, gdfo and revnos                                       *)
(***************************************************************************)
\* C15: in every stored range the members in ascending dist are the head
\* followed by its successive left-hand parents, and tail is the left-hand
\* parent of the last member (None at the end of history)
C15_RangesFollowLhParents ==
    \A k \in 1..Len(db.mainline_parent_range) :
        /\ RangeMembers(db, k)[1] = db.mainline_parent_range[k].head
        /\ \A i \in 1..(Len(RangeMembers(db, k)) - 1) :
              RangeMembers(db, k)[i + 1]
                  = GetLhParentDbId(db, RangeMembers(db, k)[i])
        /\ db.mainline_parent_range[k].tail
              = GetLhParentDbId(db, Last(RangeMembers(db, k)))

\* C19: for every stored parent edge between two revisions that are not
\* ghosts, the gdfo of the child is greater than the gdfo of the parent
C19_GdfoGrowsAlongEdges ==
    \A e \in db.parent :
        e[1] \notin db.ghost /\ e[2] \notin db.ghost =>
            GdfoOf(db, e[1]) > GdfoOf(db, e[2])

\* an incremental import recorded a revision with two parents that are not
\* ghosts, one of them recorded by an earlier import
C19_Witness ==
    /\ IncrementalImportDone
    /\ \E e \in db.parent, f \in db.parent :
          /\ e[1] = f[1] /\ e[2] # f[2]
          /\ e[1] > Len(last.pre.revision)
          /\ e[2] <= Len(last.pre.revision)
          /\ {e[2], f[2]} \cap db.ghost = {}

\* C20: for a fixed tip no two dotted_revno rows carry the same revno
C20_RevnoUniquePerTip ==
    \A x \in db.dotted_revno, y \in db.dotted_revno :
        x.tip_revision = y.tip_revision /\ x.revno = y.revno => x = y

\* after two imports two tips each have the row of a merged revision next
\* to their own
C20_Witness ==
    /\ imports = 2
    /\ \E x \in db.dotted_revno, y \in db.dotted_revno :
          /\ x.tip_revision # y.tip_revision
          /\ x.tip_revision # x.merged_revision
          /\ y.tip_revision # y.merged_revision
          /\ Len(StrToRevno(x.revno)) > 1 /\ Len(StrToRevno(y.revno)) > 1

(***************************************************************************)
(* The ranges of a long mainline                                            *)
(***************************************************************************)
\* the chain of ranges followed from a revision: the longest range whose
\* head it is, then the longest range whose head is its tail, and so on
RECURSIVE RangeChain(_, _)
RangeChain(d, db_id) ==
    IF db_id = None THEN <<>>
    ELSE LET Follow(r) ==
                 IF r.range_key = None THEN <<>>
                 ELSE <<r.range_key>> \o RangeChain(d, r.tail)
         IN  Follow(GetRangeKeyAndTail(d, db_id))

ChainCounts(d, chain) ==
    [i \in 1..Len(chain) |-> d.mainline_parent_range[chain[i]].count]

SubMaximal(d, chain) ==
    {i \in 1..Len(chain) :
        ChainCounts(d, chain)[i] < _MAINLINE_PARENT_RANGE_LEN}

\* the tip of the scenario: two full ranges and a half
TwoRangesAndAHalf ==
    2 * _MAINLINE_PARENT_RANGE_LEN + _MAINLINE_PARENT_RANGE_LEN \div 2

\* C16: after any sequence of imports, the chain of ranges followed from a
\* tip whose ranges were built has at most one range of fewer than
\* _MAINLINE_PARENT_RANGE_LEN members; a single import of a linear history
\* of 250 revisions leaves exactly three ranges, of 100, 100 and 50 members.
C16_OneSubMaximalRangePerChain ==
    /\ \A tip \in done :
          Cardinality(SubMaximal(db, RangeChain(db, GetDbId(db, tip)))) <= 1
    /\ (imports = 1 /\ last.kind = "import_linear"
            /\ last.tip = TwoRangesAndAHalf)
          => /\ Len(db.mainline_parent_range) = 3
             /\ ChainCounts(db, RangeChain(db, GetDbId(db, last.tip)))
                   = <<_MAINLINE_PARENT_RANGE_LEN \div 2,
                       _MAINLINE_PARENT_RANGE_LEN,
                       _MAINLINE_PARENT_RANGE_LEN>>
             /\ ChainCounts(db, <<1, 2, 3>>)
                   = <<_MAINLINE_PARENT_RANGE_LEN,
                       _MAINLINE_PARENT_RANGE_LEN,
                       _MAINLINE_PARENT_RANGE_LEN \div 2>>

\* the third import has included a shorter range in its own: the chain of
\* its tip has three ranges, one of them short, and the store holds a range
\* that is on no chain any more
C16_Witness ==
    /\ imports = 3
    /\ last.kind = "import_linear"
    /\ last.collected > 0
    /\ last.stopped_at # None
    /\ Len(db.mainline_parent_range) > last.pre_ranges
    /\ \E k \in 1..last.pre_ranges :
          /\ db.mainline_parent_range[k].head = last.stopped_at
          /\ db.mainline_parent_range[k].count < _MAINLINE_PARENT_RANGE_LEN
    /\ Len(RangeChain(db, GetDbId(db, last.tip))) = 3
    /\ Cardinality(SubMaximal(db, RangeChain(db, GetDbId(db, last.tip)))) = 1

\* on the linear history the left-hand-parent chain of h is h, h - 1, .., 1
ChainLength(h) == Cardinality({r \in RevIds(graph) : r <= h})

\* the range lookups of a walk of the whole mainline from h: one
\* _get_range_key_and_tail per turn of the loop
RangeLookups(d, h) ==
    Len(WalkAncestryLoop(d, GetDbId(d, h), {}, <<>>).steps)

\* C17: once ranges are built for a tip h, the walk of the whole mainline
\* from h down to the oldest revision uses at most
\* ceil(chain_length / _MAINLINE_PARENT_RANGE_LEN) range lookups.
C17_WalkUsesFewRangeLookups ==
    \A h \in done :
        RangeLookups(db, h) * _MAINLINE_PARENT_RANGE_LEN
            < ChainLength(h) + _MAINLINE_PARENT_RANGE_LEN

\* a tip built by three imports whose walk takes three lookups
C17_Witness ==
    /\ imports = 3
    /\ last.kind = "import_linear"
    /\ last.collected > 0
    /\ last.stopped_at # None
    /\ last.tip \in done
    /\ ChainLength(last.tip) > 2 * _MAINLINE_PARENT_RANGE_LEN
    /\ RangeLookups(db, last.tip) = 3

\* C18: every stored range has between 1 and _MAINLINE_PARENT_RANGE_LEN
\* members, its count is the number of its mainline_parent rows, the dists
\* of its members are exactly 0..count-1, and the member at dist 0 is its
\* head.
C18_RangesAreWellFormed ==
    \A k \in 1..Len(db.mainline_parent_range) :
        LET WellFormed(r, rows) ==
                /\ r.count \in 1.._MAINLINE_PARENT_RANGE_LEN
                /\ Cardinality(rows) = r.count
                /\ {m.dist : m \in rows} = 0..(r.count - 1)
                /\ \A m \in rows : m.dist = 0 => m.revision = r.head
        IN  WellFormed(db.mainline_parent_range[k],
                       {m \in db.mainline_parent : m.range = k})

\* an import that collected more than _MAINLINE_PARENT_RANGE_LEN revisions
\* and included a shorter range: it has inserted a full range and a short one
C18_Witness ==
    /\ last.kind = "import_linear"
    /\ last.collected > _MAINLINE_PARENT_RANGE_LEN
    /\ last.stopped_at # None
    /\ Len(db.mainline_parent_range) >= last.pre_ranges + 2
    /\ \E k \in (last.pre_ranges + 1)..Len(db.mainline_parent_range) :
          db.mainline_parent_range[k].count = _MAINLINE_PARENT_RANGE_LEN
    /\ \E k \in (last.pre_ranges + 1)..Len(db.mainline_parent_range) :
          db.mainline_parent_range[k].count < _MAINLINE_PARENT_RANGE_LEN

\* a store with every db_id replaced by the revision id of its row
ByRevisionId(d) ==
    LET Id(x) == IF x = None THEN None ELSE RevIdOf(d, x)
    IN  [revision |-> {d.revision[i] : i \in 1..Len(d.revision)},
         parent |-> {<<Id(e[1]), Id(e[2]), e[3]>> : e \in d.parent},
         dotted_revno |->
             {[x EXCEPT !.tip_revision = Id(@), !.merged_revision = Id(@)] :
                 x \in d.dotted_revno},
         mainline_parent_range |->
             [k \in 1..Len(d.mainline_parent_range) |->
                 [d.mainline_parent_range[k] EXCEPT
                     !.head = Id(@), !.tail = Id(@)]],
         mainline_parent |->
             {[m EXCEPT !.revision = Id(@)] : m \in d.mainline_parent}]

\* the import of a tip of a linear history: its rows, then its ranges
ImportLinearTip(d, tip) == BuildOneMainline(ExtendLinear(d, tip), tip)

\* on a linear history Importer.do_import leaves the rows and ranges that
\* ExtendLinear and _build_one_mainline leave, up to the numbering of the
\* revisions
LinearImportAgrees ==
    (graph = LinearGraph(Len(graph)) /\ last.kind = "import" /\ last.err = "")
        => \/ /\ imports = 1
              /\ ByRevisionId(db)
                    = ByRevisionId(ImportLinearTip(EmptyDb, last.tip))
           \/ /\ imports = 2
              /\ \E first \in RevIds(graph) :
                    /\ ByRevisionId(last.pre)
                          = ByRevisionId(ImportLinearTip(EmptyDb, first))
                    /\ ByRevisionId(db)
                          = ByRevisionId(ImportLinearTip(
                                ImportLinearTip(EmptyDb, first), last.tip))

(***************************************************************************)
(* The numbering of roots, ghosts and sub-branches                          *)
(***************************************************************************)
\* C21: every revision numbered at merge_depth 0 has a revno of exactly one
\* component, also when a mainline revision has a ghost left-hand parent or
\* no parent while other roots are merged.
\* It is stated for the stores written by the incremental sorter alone.
C21_MainlineRevnoHasOneComponent ==
    modes \subseteq {TRUE}
        => \A r \in db.dotted_revno :
              r.merge_depth = 0 => Len(StrToRevno(r.revno)) = 1

\* the graph with every ghost parent edge left out
WithoutGhosts(g) ==
    [r \in 1..Len(g) |-> SelectSeq(g[r], LAMBDA p : ~IsGhost(g, p))]

GhostParentsOf(g, r) == {p \in Range(g[r]) : IsGhost(g, p)}

\* an import of a tip that has a ghost among its parents
ImportOfGhostChild ==
    last.kind = "import" /\ GhostParentsOf(graph, last.tip) # {}

GhostIsRecorded ==
    \A p \in GhostParentsOf(graph, last.tip) :
        /\ GetDbId(db, p) # None
        /\ GdfoOf(db, GetDbId(db, p)) = 1
        /\ GetDbId(db, p) \in db.ghost

GhostIsNeverMerged ==
    \A r \in db.dotted_revno : r.merged_revision \notin db.ghost

NumberedAsWithoutGhosts ==
    {<<last.merge_sorted[i].key, last.merge_sorted[i].revno>> :
        i \in 1..Len(last.merge_sorted)}
    \subseteq RevnosOf(WithoutGhosts(graph), last.tip, RevIds(graph))

\* C22: the import of a tip with a ghost among its parents finishes without
\* error, the ghost has a revision row with gdfo 1 and a ghost row, no
\* dotted_revno row has the ghost as merged revision, and every other
\* revision has the number it would have if the ghost parent edge were
\* absent.  It is stated for the incremental import.
C22_GhostLeavesNumbering ==
    ImportOfGhostChild /\ last.incremental
        => /\ last.err = ""
           /\ GhostIsRecorded
           /\ GhostIsNeverMerged
           /\ NumberedAsWithoutGhosts

(***************************************************************************)
(* What an import leaves alone                                              *)
(***************************************************************************)
\* every row of store a is a row of store b, with the same primary key
RowsKept(a, b) ==
    /\ Len(a.revision) <= Len(b.revision)
    /\ SubSeq(b.revision, 1, Len(a.revision)) = a.revision
    /\ a.ghost \subseteq b.ghost
    /\ a.parent \subseteq b.parent
    /\ a.dotted_revno \subseteq b.dotted_revno
    /\ Len(a.mainline_parent_range) <= Len(b.mainline_parent_range)
    /\ SubSeq(b.mainline_parent_range, 1, Len(a.mainline_parent_range))
            = a.mainline_parent_range
    /\ a.mainline_parent \subseteq b.mainline_parent

\* a revision recorded as a ghost is the child of no parent row
GhostsHaveNoParents(d) == \A e \in d.parent : e[1] \notin d.ghost

\* C23: every row of revision, ghost, parent, dotted_revno,
\* mainline_parent_range and mainline_parent that is there before an import
\* is there unchanged after it, and a ghost stays a ghost without parent
\* rows.
C23_ImportsKeepEveryRow ==
    [][RowsKept(db, db') /\ GhostsHaveNoParents(db')]_vars

\* a second import has added revisions, numbers and a range to a store that
\* held a ghost, numbers and a range
C23_Witness ==
    /\ imports = 2
    /\ last.kind = "import" /\ last.err = ""
    /\ last.pre.ghost # {}
    /\ last.pre.dotted_revno # {}
    /\ last.pre.mainline_parent_range # <<>>
    /\ Len(db.revision) > Len(last.pre.revision)
    /\ db.dotted_revno # last.pre.dotted_revno
    /\ Len(db.mainline_parent_range) > Len(last.pre.mainline_parent_range)

(***************************************************************************)
(* The incremental sort on a damaged numbering                              *)
(***************************************************************************)
\* the revisions the new tip brings: reachable from it and not from t_imp
NewlyReachable(g, tip, t_imp) ==
    Ancestry(g, tip) \ (IF t_imp = None THEN {} ELSE Ancestry(g, t_imp))

\* the lost row is the row of the left-hand parent of a newly reachable
\* revision, and that parent is in the numbering of t_imp
LostRowIsNeeded(damage, import) ==
    /\ damage.what = "dotted_revno"
    /\ import.t_imp # None
    /\ \E x \in NewlyReachable(graph, import.tip, import.t_imp) :
          /\ graph[x] # <<>>
          /\ graph[x][1] = RevIdOf(import.pre, damage.db_id)
          /\ graph[x][1] \in Ancestry(graph, import.t_imp)

\* the gdfo written contradicts a parent row inside the ancestry of t_imp
GdfoIsContradicted(damage, import) ==
    /\ damage.what = "gdfo"
    /\ import.t_imp # None
    /\ RevIdOf(import.pre, damage.db_id) \in Ancestry(graph, import.t_imp)

\* C24: when the stored numbering for t_imp is inconsistent (the row of a
\* left-hand parent the sort needs is missing, or a gdfo contradicts a
\* parent row), the incremental sort stops with CorruptIndex: it neither
\* runs for ever nor returns a numbering.
C24_DamageStopsWithCorruptIndex ==
    [][(/\ last.kind = "damage"
        /\ last'.kind = "import"
        /\ \/ LostRowIsNeeded(last, last')
           \/ GdfoIsContradicted(last, last'))
          => last'.err = "CorruptIndex"]_vars

(***************************************************************************)
(* Cancellation, NULL_REVISION and unknown identifiers                      *)
(***************************************************************************)
\* C25: when the progress callback signals cancel during an import, the
\* transaction is rolled back and the store is left as it was before the
\* import; no range of a cancelled import is committed.
C25_CancelLeavesStoreUntouched ==
    (last.kind = "import" /\ last.cancel_at \in CallsMade(last.incremental))
        => db = last.pre

\* the revision identifiers of the revision table
StoredRevisionIds(d) == {d.revision[i].revision_id : i \in 1..Len(d.revision)}

\* the parent-less roots of the graph hold gdfo 1 and are the child of no
\* parent row
RootsHaveNoParentEdge ==
    \A i \in 1..Len(db.revision) :
        (HasParentMap(graph, RevIdOf(db, i)) /\ graph[RevIdOf(db, i)] = <<>>)
            => /\ GdfoOf(db, i) = 1
               /\ \A e \in db.parent : e[1] # i

\* every parent row joins two rows of the revision table
ParentRowsJoinRevisions ==
    \A e \in db.parent : e[1] \in 1..Len(db.revision) /\ e[2] \in 1..Len(db.revision)

\* the last query answered nothing
LastResultIsEmpty ==
    CASE last.kind = "get_dotted_revnos" -> last.revnos = {}
      [] last.kind = "walk_ancestry" -> last.all_ancestors = {}
      [] last.kind = "walk_mainline" -> last.steps = <<>>
      [] last.kind = "get_revision_ids" -> last.revno_map = {}
      [] last.kind = "get_mainline_where_merged" ->
            last.revision_to_mainline_map = {}
      [] last.kind = "iter_merge_sorted_revisions" -> last.merge_sorted = <<>>
      [] OTHER -> TRUE

\* a query on a branch whose tip is NULL_REVISION imports nothing and
\* answers nothing
NullTipQueryIsEmpty ==
    (last.kind \in QueryKinds /\ last.tip = NULL_REVISION)
        => /\ last.err = ""
           /\ db = last.pre
           /\ LastResultIsEmpty

\* C26: NULL_REVISION never gets a revision row: a branch whose tip is
\* NULL_REVISION is imported without writing a row and a query on it
\* answers nothing, and a revision whose parents are NULL_PARENTS is stored
\* as a root with gdfo 1 and no parent row.
C26_NullRevisionIsNeverInterned ==
    /\ NULL_REVISION \notin StoredRevisionIds(db)
    /\ ParentRowsJoinRevisions
    /\ RootsHaveNoParentEdge
    /\ NullTipQueryIsEmpty

\* a query with identifiers on a null branch, over a store that an
\* incremental import filled from a root
C26_Witness ==
    /\ last.kind = "get_dotted_revnos"
    /\ last.tip = NULL_REVISION
    /\ last.revision_ids # {}
    /\ TRUE \in modes
    /\ \E i \in 1..Len(db.revision) :
           /\ HasParentMap(graph, RevIdOf(db, i))
           /\ graph[RevIdOf(db, i)] = <<>>
    /\ db.parent # {}

\* the last call, on a branch with a tip, was asked for an identifier the
\* revision table does not hold
AskedForUnknownId ==
    /\ last.kind \in {"get_dotted_revnos", "get_mainline_where_merged"}
    /\ last.tip # NULL_REVISION
    /\ \E r \in last.revision_ids : r \notin StoredRevisionIds(db)

\* C27: get_dotted_revnos and get_mainline_where_merged, asked for a
\* revision identifier that has no row in the revision table, leave with a
\* NotFound error.
C27_UnknownIdIsNotFound == AskedForUnknownId => last.err = "NotFound"

(***************************************************************************)
(* The interesting ancestry and the numbers of sub-branches                 *)
(***************************************************************************)
\* the sorter of an incremental import of tip into the store pre, after
\* _find_interesting_ancestry, and the store it reads
InterestingSearch(pre, g, tip) ==
    LET Found(d1) ==
            [db |-> d1,
             ms |-> FindInterestingAncestry(d1, IMSInit(GetDbId(d1, tip)))]
    IN  Found(UpdateAncestry(pre, g, tip))

\* the revision identifiers of the interesting set, ghosts left out
InterestingRevisions(s) ==
    {RevIdOf(s.db, x) : x \in s.ms.interesting_ancestor_ids \ s.db.ghost}

\* C28: when _find_interesting_ancestry finishes, the interesting set holds
\* every non-ghost revision reachable from the new tip that is neither
\* t_imp nor an ancestor of t_imp, and no revision that is t_imp or an
\* ancestor of t_imp.
C28_InterestingIsNewlyReachable ==
    (last.kind = "import" /\ last.incremental)
        => \E s \in {InterestingSearch(last.pre, graph, last.tip)} :
              /\ s.ms.err = ""
              /\ InterestingRevisions(s) =
                    NewlyReachable(graph, last.tip, last.t_imp)

\* an import over a stored numbering: the gdfo filter and the children
\* filter both had search tips to classify, and part of the ancestry of the
\* new tip was left out
C28_Witness ==
    /\ last.kind = "import"
    /\ last.incremental
    /\ last.err = ""
    /\ last.t_imp # None
    /\ \E s \in {InterestingSearch(last.pre, graph, last.tip)} :
          /\ Cardinality(InterestingRevisions(s)) >= 2
          /\ InterestingRevisions(s) # Ancestry(graph, last.tip)
          /\ \E x \in InterestingRevisions(s) :
                /\ x \notin Range(RevIdsOf(s.db, s.ms.mainline_db_ids))
                /\ \E i \in 1..Len(graph[x]) :
                      graph[x][i] \in Ancestry(graph, last.t_imp) \ {last.t_imp}

\* the numbering of the ancestry of the tip after an incremental import:
\* the nodes of this run, then the stored groups from t_imp downwards; a
\* node is numbered before every node that stands in front of it
FullNumbering ==
    last.merge_sorted \o
        (IF last.t_imp = None THEN <<>>
         ELSE StoredMergeSorted(last.pre, GetDbId(last.pre, last.t_imp)))

\* the left-hand parent of a revision, None for a root and for a ghost
\* left-hand parent
LhParentOf(g, r) ==
    IF HasParentMap(g, r) /\ g[r] # <<>> /\ ~IsGhost(g, g[r][1])
    THEN g[r][1] ELSE None

\* the revno of a revision in a numbering
RevnoIn(S, key) == S[CHOOSE j \in 1..Len(S) : S[j].key = key].revno

\* the sorter of an incremental import of tip into the store pre after
\* topo_order, the store it reads, and its nodes in the order returned
SortRun(pre, g, tip) ==
    LET Sorted(d1, ms) ==
            [db |-> d1, ms |-> ms, nodes |-> Reverse(ms.scheduled_stack)]
        Run(d1) == Sorted(d1, TopoOrderState(d1, GetDbId(d1, tip)))
    IN  Run(UpdateAncestry(pre, g, tip))

\* the node was pushed as a later child of its left-hand parent
NotFirstChild(node) == node.left_parent # None /\ ~node.is_first

\* the highest sub-branch number of base among the nodes numbered before
\* the node at index i, 0 when there is none
HighestBranch(S, i, base) ==
    LET used == {0} \cup
                {S[j].revno[2] : j \in {x \in (i + 1)..Len(S) :
                    Len(S[x].revno) = 3 /\ S[x].revno[1] = base}}
    IN  CHOOSE m \in used : \A y \in used : y <= m

\* C29: a revision that is not the first child of its left-hand parent gets
\* revno (base, k+1, 1), base the first component of the parent's revno and
\* k the highest sub-branch number used for base in the stored groups of
\* the imported mainline and by the revisions numbered earlier in the run.
C29_NewSubBranchTakesNextNumber ==
    IncrementalImportDone =>
        \E S \in {FullNumbering}, r \in {SortRun(last.pre, graph, last.tip)} :
            \A i \in 1..Len(r.nodes) :
                NotFirstChild(r.nodes[i]) =>
                    \E base \in {RevnoIn(S, RevIdOf(r.db,
                                       r.nodes[i].left_parent))[1]} :
                        /\ S[i].key = RevIdOf(r.db, r.nodes[i].key)
                        /\ S[i].revno =
                              <<base, HighestBranch(S, i, base) + 1, 1>>

\* a new sub-branch opened next to sub-branches of the same base that the
\* stored groups hold, its parent a merged revision
C29_Witness ==
    /\ IncrementalImportDone
    /\ last.t_imp # None
    /\ \E S \in {FullNumbering}, r \in {SortRun(last.pre, graph, last.tip)} :
          \E i \in 1..Len(r.nodes) :
              /\ NotFirstChild(r.nodes[i])
              /\ Len(RevnoIn(S, RevIdOf(r.db, r.nodes[i].left_parent))) = 3
              /\ S[i].revno[2] >= 3

\* the place of a node in the order of the pushes of a run
PushedAt(r, key) == CHOOSE k \in 1..Len(r.ms.pushed) : r.ms.pushed[k] = key

\* a node pushed before the node has the same left-hand parent
EarlierPushHasParent(r, node) ==
    \E j \in 1..Len(r.nodes) :
        /\ r.nodes[j].left_parent = node.left_parent
        /\ PushedAt(r, r.nodes[j].key) < PushedAt(r, node.key)

\* a revision of the stored numbering of the imported mainline has the
\* left-hand parent of the node as its left-hand parent
StoredChildHasParent(S, r, node) ==
    \E j \in (Len(r.nodes) + 1)..Len(S) :
        LhParentOf(graph, S[j].key) = RevIdOf(r.db, node.left_parent)

\* the revno of the first child of a revision
NextOnBranch(revno) == [revno EXCEPT ![Len(revno)] = @ + 1]

\* C30: is_first_child(parent) is true exactly when no node pushed earlier
\* in the walk and no revision of the stored numbering of the imported
\* mainline has parent as its left-hand parent; a first child gets the
\* parent's revno with its last component incremented, and at most one
\* revision is treated as first child of a parent.
C30_FirstChildIsExact ==
    IncrementalImportDone =>
        \E S \in {FullNumbering}, r \in {SortRun(last.pre, graph, last.tip)} :
            \A i \in 1..Len(r.nodes) :
                r.nodes[i].left_parent # None =>
                    /\ r.nodes[i].is_first <=>
                          /\ ~EarlierPushHasParent(r, r.nodes[i])
                          /\ ~StoredChildHasParent(S, r, r.nodes[i])
                    /\ r.nodes[i].is_first =>
                          /\ S[i].revno = NextOnBranch(RevnoIn(S,
                                RevIdOf(r.db, r.nodes[i].left_parent)))
                          /\ \A j \in 1..Len(S) :
                                (/\ j # i
                                 /\ LhParentOf(graph, S[j].key)
                                        = LhParentOf(graph, S[i].key))
                                    => S[j].revno # S[i].revno
                    /\ \A j \in 1..Len(r.nodes) :
                          (/\ r.nodes[j].left_parent = r.nodes[i].left_parent
                           /\ r.nodes[j].is_first
                           /\ r.nodes[i].is_first) => j = i

\* a run in which one parent has a first child pushed before a later child,
\* and another parent has its first child in the stored numbering
C30_Witness ==
    /\ IncrementalImportDone
    /\ last.t_imp # None
    /\ \E S \in {FullNumbering}, r \in {SortRun(last.pre, graph, last.tip)} :
          /\ \E i \in 1..Len(r.nodes) :
                /\ r.nodes[i].left_parent # None
                /\ ~r.nodes[i].is_first
                /\ EarlierPushHasParent(r, r.nodes[i])
          /\ \E i \in 1..Len(r.nodes) :
                /\ r.nodes[i].left_parent # None
                /\ ~r.nodes[i].is_first
                /\ ~EarlierPushHasParent(r, r.nodes[i])
                /\ StoredChildHasParent(S, r, r.nodes[i])
          /\ \E i \in 1..Len(r.nodes) :
                /\ r.nodes[i].left_parent # None
                /\ r.nodes[i].is_first
                /\ r.nodes[i].merge_depth > 0

(***************************************************************************)
(* New roots and end_of_merge                                               *)
(***************************************************************************)
\* the oldest revision of the left-hand-parent chain of a revision
RECURSIVE OldestMainline(_, _)
OldestMainline(g, r) ==
    IF LhParentOf(g, r) = None THEN r ELSE OldestMainline(g, LhParentOf(g, r))

\* the new-root sub-branches numbered before the node at index i
NewRootsBefore(S, i) ==
    {j \in (i + 1)..Len(S) :
        Len(S[j].revno) = 3 /\ S[j].revno[1] = 0 /\ S[j].revno[3] = 1}

\* C31: a revision without a usable left-hand parent (no parent, or a ghost
\* as left-hand parent) is numbered as a new root: (1,) only when it is the
\* very first mainline revision of the branch, otherwise (0, n, 1) with n
\* one more than the number of new-root sub-branches already numbered.
C31_NewRootNumbering ==
    IncrementalImportDone =>
        \E S \in {FullNumbering} :
            \A i \in 1..Len(last.merge_sorted) :
                LhParentOf(graph, S[i].key) = None =>
                    S[i].revno =
                        IF S[i].key = OldestMainline(graph, last.tip)
                        THEN <<1>>
                        ELSE <<0, Cardinality(NewRootsBefore(S, i)) + 1, 1>>

\* the node at index i of a tip-first numbering ends a merge: it is the last
\* one, or the node that follows is at a smaller merge depth, or at the
\* same depth without being one of its parents
EndsMerge(S, i) ==
    \/ i = Len(S)
    \/ S[i + 1].merge_depth < S[i].merge_depth
    \/ /\ S[i + 1].merge_depth = S[i].merge_depth
       /\ S[i + 1].key \notin Range(graph[S[i].key])

\* C32: end_of_merge of a revision numbered by an incremental run is true
\* exactly when the revision that follows it in the tip-first order (the
\* imported t_imp for the revision popped first) is at a smaller merge
\* depth, or at the same depth and not one of its parents, or when no
\* revision follows; in a linear history only the oldest revision has it.
C32_EndOfMergeIsExact ==
    IncrementalImportDone =>
        \E S \in {FullNumbering} :
            \A i \in 1..Len(last.merge_sorted) :
                /\ S[i].end_of_merge <=> EndsMerge(S, i)
                /\ graph = LinearGraph(Len(graph)) =>
                      (S[i].end_of_merge <=> S[i].key = 1)

\* a run over an imported mainline whose first popped node is a mainline
\* revision, not at the end of a merge, and which numbers a merged revision
\* at the end of a merge
C32_Witness ==
    /\ IncrementalImportDone
    /\ last.t_imp # None
    /\ Len(last.merge_sorted) >= 3
    /\ Last(last.merge_sorted).merge_depth = 0
    /\ ~Last(last.merge_sorted).end_of_merge
    /\ \E i \in 1..Len(last.merge_sorted) :
          /\ last.merge_sorted[i].merge_depth > 0
          /\ last.merge_sorted[i].end_of_merge

(***************************************************************************)
(* The children filter                                                      *)
(***************************************************************************)
\* the children the parent table holds for a revision
ChildrenOf(d, p) == {e[1] : e \in {x \in d.parent : x[2] = p}}

\* the calls of _split_interesting_using_children of the last import, each
\* with the store it read
ChildrenCalls ==
    LET Calls(s) ==
            {[db |-> s.db, call |-> s.ms.children_calls[k]] :
                k \in 1..Len(s.ms.children_calls)}
    IN  Calls(InterestingSearch(last.pre, graph, last.tip))

\* every child of the tip is already imported or not interesting
ChildrenImportedOrUninteresting(c, p) ==
    \A x \in ChildrenOf(c.db, p) :
        x \in c.call.imported \/ x \notin c.call.interesting

\* C33 as stated: a search tip all of whose children are already imported
\* or uninteresting is classified interesting by the children filter, and
\* any other search tip stays unknown.
C33_ChildrenFilterAsStated ==
    (last.kind = "import" /\ last.incremental) =>
        \A c \in ChildrenCalls : \A p \in c.call.unknown :
            IF ChildrenImportedOrUninteresting(c, p)
            THEN p \in c.call.now_interesting
            ELSE p \in c.call.still_unknown

\* a child of the tip is already imported
HasImportedChild(c, p) == \E x \in ChildrenOf(c.db, p) : x \in c.call.imported

\* no child of the tip can have been merged into the imported history that
\* is still to be loaded: each is interesting, or its gdfo is not below the
\* imported gdfo
NoChildPossiblyMerged(c, p) ==
    \A x \in ChildrenOf(c.db, p) :
        x \in c.call.interesting \/ GdfoOf(c.db, x) >= c.call.imported_gdfo

\* C33 amended: a search tip with an already imported child is dropped as
\* imported; of the others, a tip is classified interesting exactly when
\* each of its children is interesting or has a gdfo that is not below the
\* imported gdfo, and stays unknown otherwise.
C33_ChildrenFilter ==
    (last.kind = "import" /\ last.incremental) =>
        \A c \in ChildrenCalls : \A p \in c.call.unknown :
            IF HasImportedChild(c, p)
            THEN /\ p \notin c.call.still_unknown
                 /\ p \notin c.call.now_interesting
            ELSE IF NoChildPossiblyMerged(c, p)
            THEN /\ p \in c.call.now_interesting
                 /\ p \notin c.call.still_unknown
            ELSE /\ p \in c.call.still_unknown
                 /\ p \notin c.call.now_interesting

\* an import whose children filter dropped a tip as imported, classified a
\* tip with a child that is not interesting as interesting, and left a tip
\* unknown
C33_Witness ==
    /\ IncrementalImportDone
    /\ \E c \in ChildrenCalls : \E p \in c.call.unknown :
          HasImportedChild(c, p)
    /\ \E c \in ChildrenCalls : \E p \in c.call.unknown :
          /\ ~HasImportedChild(c, p)
          /\ NoChildPossiblyMerged(c, p)
          /\ \E x \in ChildrenOf(c.db, p) : x \notin c.call.interesting
    /\ \E c \in ChildrenCalls : c.call.still_unknown # {}

(***************************************************************************)
(* The gdfo written by ancestry discovery                                   *)
(***************************************************************************)
\* the rows of the revision table that hold a revision identifier
RowsOf(d, rev_id) ==
    {i \in 1..Len(d.revision) : d.revision[i].revision_id = rev_id}

\* the revisions and ghosts the ancestry of a tip names
NamedByAncestry(g, tip) ==
    Ancestry(g, tip) \cup UNION {Range(g[r]) : r \in Ancestry(g, tip)}

\* the greatest gdfo the store holds for the parents of a revision
MaxParentGdfo(d, g, r) ==
    LET gdfos == {GdfoOf(d, GetDbId(d, g[r][i])) : i \in 1..Len(g[r])}
    IN  CHOOSE m \in gdfos : \A y \in gdfos : y <= m

\* the row of the revision is there once, with the gdfo its parents give it
GdfoIsRight(d, g, r) ==
    /\ Cardinality(RowsOf(d, r)) = 1
    /\ GdfoOf(d, GetDbId(d, r)) =
          IF IsGhost(g, r) \/ g[r] = <<>> THEN 1
          ELSE 1 + MaxParentGdfo(d, g, r)

\* C34: after ancestry discovery for a new tip, every revision newly
\* reachable from the tip has one revision row, with gdfo 1 when it has no
\* parents or is a ghost and 1 + the greatest gdfo of its parents otherwise
\* (parents recorded by earlier imports included).
C34_DiscoveredGdfo ==
    (last.kind = "import" /\ last.incremental) =>
        \E d1 \in {UpdateAncestry(last.pre, graph, last.tip)} :
            \A r \in NamedByAncestry(graph, last.tip) :
                /\ \A x \in Range(IF IsGhost(graph, r) THEN <<>> ELSE graph[r]) :
                      RowsOf(d1, x) # {}
                /\ GdfoIsRight(d1, graph, r)

\* a discovery that recorded a merge whose parents have different gdfo, one
\* of them recorded by an earlier import
C34_Witness ==
    /\ IncrementalImportDone
    /\ \E d1 \in {UpdateAncestry(last.pre, graph, last.tip)} :
          \E r \in Ancestry(graph, last.tip) :
              /\ RowsOf(last.pre, r) = {}
              /\ Len(graph[r]) = 2
              /\ RowsOf(last.pre, graph[r][1]) # {}
              /\ RowsOf(last.pre, graph[r][2]) = {}
              /\ GdfoOf(d1, GetDbId(d1, graph[r][1]))
                    # GdfoOf(d1, GetDbId(d1, graph[r][2]))

(***************************************************************************)
(* Termination of topo_order                                                *)
(***************************************************************************)
\* the sorter without the notes kept for the properties
SorterResult(ms) ==
    [scheduled |-> ms.scheduled_stack,
     interesting |-> ms.interesting_ancestor_ids,
     imported_mainline_id |-> ms.imported_mainline_id,
     imported_dotted_revno |-> ms.imported_dotted_revno,
     err |-> ms.err]

\* the turns, taken one at a time, end in the state topo_order computes
TopoTurnsAgree ==
    (TopoRuns /\ last.pc = "done") =>
        SorterResult(last.ms) =
            SorterResult(TopoOrderState(db, GetDbId(db, last.tip)))

\* C35: on a finite acyclic graph and a consistent store topo_order ends:
\* the classify loop, the stepping of search tips, _ensure_lh_parent_info,
\* _step_to_latest_branch and the numbering loop all finish, also when the
\* imported mainline is empty or walked past its oldest revision.
C35_TopoOrderTerminates == TopoRuns ~> (TopoRuns /\ last.pc = "done")

\* a finished run that took turns of every loop and walked the imported
\* mainline past its oldest revision
C35_Witness ==
    /\ TopoRuns
    /\ last.pc = "done"
    /\ last.turns.unknown > 1
    /\ last.turns.ensure > 0
    /\ last.turns.number = MaxTurns
    /\ last.ms.imported_mainline_id = None
    /\ last.ms.imported_gdfo = 0
    /\ imports = 1

(***************************************************************************)
(* The importer lock is given back                                          *)
(***************************************************************************)
\* Querier c is out of ensure_branch_tip
Returned(c) == qs[c].pc \in {"new", "idle"}

\* Querier c waits in _importer_lock.acquire() while another one holds the
\* lock
BlockedOnLock(c) ==
    /\ qs[c].pc = "acquire"
    /\ qs[c].importer_lock
    /\ lock \notin {"free", c}

NoReturnWithLock == \A c \in Queriers : Returned(c) => lock # c

\* C36: the lock a Querier takes for an import is released after the commit
\* and when the import fails: no Querier is out of ensure_branch_tip with the
\* lock, and a Querier blocked on the lock acquires it once the running
\* import has ended.
C36_LockIsReleased ==
    /\ []NoReturnWithLock
    /\ \A c \in Queriers : BlockedOnLock(c) ~> (lock = c)

\* a Querier that waited for the lock while the other Querier's import
\* failed holds the lock
C36_Witness ==
    /\ last.kind = "failed"
    /\ qs[last.by].importer_lock
    /\ \E c \in last.waiting : lock = c /\ qs[c].pc \in InImport

(***************************************************************************)
(* Two Queriers import the same tip                                         *)
(***************************************************************************)
TipImported(d, tip) ==
    GetDbId(d, tip) # None /\ IsImportedDbId(d, GetDbId(d, tip))

\* Querier c runs the second of two imports of one tip: c and another
\* Querier of the same tip share the lock, both found the tip not imported
\* in ensure_branch_tip, and the tip was imported when c got the lock
SecondOfTwo(c) ==
    /\ qs[c].importer_lock
    /\ ~TipImported(qs[c].checked, TipOf(c))
    /\ TipImported(qs[c].started, TipOf(c))
    /\ \E x \in Queriers \ {c} :
          /\ qs[x].importer_lock
          /\ TipOf(x) = TipOf(c)
          /\ ~TipImported(qs[x].checked, TipOf(x))
          /\ qs[x].q.tip_is_imported

\* the sorter of the second import raises nothing and finds no revision to
\* number (_find_needed_mainline stops at the tip), so no row is offered to
\* the store
SecondSortAddsNothing(c) ==
    \E m \in {IncrementalMergeSorted(ViewOf(c), TipOf(c))} :
        /\ m.err = ""
        /\ m.merge_sorted = <<>>
        /\ InsertMergeSorted(ViewOf(c), m.merge_sorted).err = ""

\* C37: when two Queriers of one tip both find the tip not imported and
\* import one after the other under the shared lock, the second import adds
\* no row and raises no error: the store is the one the first import left.
C37_SecondImportAddsNothing ==
    \A c \in Queriers :
        SecondOfTwo(c) =>
            /\ qs[c].pc \in InImport \cup {"release", "idle"} =>
                    /\ ViewOf(c) = qs[c].started
                    /\ db = qs[c].started
            /\ qs[c].pc = "sort" => SecondSortAddsNothing(c)

\* the second of the two imports has committed
C37_Witness ==
    /\ last.kind = "commit"
    /\ SecondOfTwo(last.by)
    /\ qs[last.by].pc = "release"
    /\ db = last.pre
    /\ db.dotted_revno # {}
    /\ db.mainline_parent # {}

(***************************************************************************)
(* The imported tips are closed under the left-hand parent                  *)
(***************************************************************************)
\* the revisions that are imported tips: a row with tip = merged exists
ImportedTipIds(d) == {RevIdOf(d, t) : t \in ImportedTips(d)}

MainlineIsImported(d, g, t) == Range(Mainline(g, t)) \subseteq ImportedTipIds(d)

\* C38: in every committed state, when a revision is an imported tip then
\* every non-ghost revision on its left-hand-parent chain is an imported tip.
C38_ImportedTipsAreClosed ==
    \A t \in ImportedTipIds(db) : MainlineIsImported(db, graph, t)

\* an incremental import has stopped at an imported mainline revision: the
\* new tip's chain has revisions of this import and of the one before
C38_Witness ==
    /\ IncrementalImportDone
    /\ imports = 2
    /\ last.tip \in ImportedTipIds(db)
    /\ Len(Mainline(graph, last.tip)) >= 3
    /\ \E r \in Range(Mainline(graph, last.tip)) :
          r # last.tip /\ r \in ImportedTipIds(last.pre)
    /\ \E r \in Range(Mainline(graph, last.tip)) :
          r # last.tip /\ r \notin ImportedTipIds(last.pre)

(***************************************************************************)
(* Every ancestor is numbered in one group                                  *)
(***************************************************************************)
\* the mainline revisions of t whose group has a as merged revision
GroupsHolding(d, g, t, a) ==
    {m \in Range(Mainline(g, t)) :
        \E r \in d.dotted_revno :
            /\ r.tip_revision = GetDbId(d, m)
            /\ r.merged_revision = GetDbId(d, a)}

\* the group of a tip begins with the tip itself, at dist 0 and
\* merge_depth 0
GroupBeginsWithTip(d, tip_db_id) ==
    \A r \in {x \in d.dotted_revno : x.tip_revision = tip_db_id} :
        (r.dist = 0 \/ r.merged_revision = tip_db_id) =>
            /\ r.dist = 0
            /\ r.merged_revision = tip_db_id
            /\ r.merge_depth = 0

NoDuplicates(seq) ==
    \A i, j \in 1..Len(seq) : seq[i] = seq[j] => i = j

\* a run of the sorter pushes and numbers each interesting revision once
PushedAndNumberedOnce(r) ==
    /\ NoDuplicates(r.ms.pushed)
    /\ Range(r.ms.pushed) = r.ms.interesting_ancestor_ids \ r.db.ghost
    /\ NoDuplicates([i \in 1..Len(r.nodes) |-> r.nodes[i].key])
    /\ {r.nodes[i].key : i \in 1..Len(r.nodes)} = Range(r.ms.pushed)

\* C39: for every imported tip t, every non-ghost ancestor of t occurs as
\* merged revision in exactly one group whose tip is on t's left-hand-parent
\* chain, each group begins with its own mainline revision at dist 0 and
\* merge_depth 0, and an incremental run pushes and numbers every
\* interesting revision exactly once.
C39_EveryAncestorInOneGroup ==
    /\ \A t \in ImportedTipIds(db) : \A a \in Ancestry(graph, t) :
          Cardinality(GroupsHolding(db, graph, t, a)) = 1
    /\ \A t \in ImportedTips(db) : GroupBeginsWithTip(db, t)
    /\ IncrementalImportDone =>
          \E r \in {SortRun(last.pre, graph, last.tip)} :
              PushedAndNumberedOnce(r)

\* an incremental import on top of an imported mainline numbered a merged
\* revision that two of the new revisions have as parent
C39_Witness ==
    /\ IncrementalImportDone
    /\ last.t_imp # None
    /\ \E r \in {SortRun(last.pre, graph, last.tip)} :
          /\ Len(r.ms.pushed) >= 3
          /\ \E i, j \in 1..Len(r.nodes) :
                /\ i # j
                /\ r.nodes[i].merge_depth > 0
                /\ \E p \in Range(r.ms.pushed) :
                      /\ <<r.nodes[i].key, p>> \in
                            {<<e[1], e[2]>> : e \in r.db.parent}
                      /\ <<r.nodes[j].key, p>> \in
                            {<<e[1], e[2]>> : e \in r.db.parent}

(***************************************************************************)
(* How an import adds ranges above a stored range                           *)
(***************************************************************************)
\* the ranges the last import of the linear history has inserted
NewRangeKeys == (last.pre_ranges + 1)..Len(db.mainline_parent_range)

\* the range _get_mainline_range_count found at the revision where the first
\* loop of _build_one_mainline stopped: the one of the highest count among
\* the ranges stored before the import
MetRange ==
    LET keys == {k \in 1..last.pre_ranges :
                    db.mainline_parent_range[k].head = last.stopped_at}
    IN  CHOOSE k \in keys : \A x \in keys :
            \/ db.mainline_parent_range[k].count
                    > db.mainline_parent_range[x].count
            \/ /\ db.mainline_parent_range[k].count
                    = db.mainline_parent_range[x].count
               /\ k <= x

MembersOf(d, keys) == {m.revision : m \in {x \in d.mainline_parent : x.range \in keys}}

\* range k has bottom as its tail, or its tail is the head of another range
\* of keys that chains down to bottom
RECURSIVE ChainsDownTo(_, _, _, _)
ChainsDownTo(d, keys, k, bottom) ==
    \/ d.mainline_parent_range[k].tail = bottom
    \/ \E j \in keys \ {k} :
          /\ d.mainline_parent_range[j].head = d.mainline_parent_range[k].tail
          /\ ChainsDownTo(d, keys \ {k}, j, bottom)

\* the last import has added ranges above a revision that was the head of a
\* range
AddedAboveAHead ==
    /\ last.kind = "import_linear"
    /\ last.stopped_at # None
    /\ last.collected > 0
    /\ NewRangeKeys # {}

\* the new ranges chain down to the head of the range met and hold none of
\* its members
ExtendsAtHead ==
    /\ \A k \in NewRangeKeys :
          ChainsDownTo(db, NewRangeKeys, k, last.stopped_at)
    /\ MembersOf(db, NewRangeKeys) \cap MembersOf(db, {MetRange}) = {}

\* the new ranges hold the members of the range met and chain down to its
\* tail
IncludesMetRange ==
    /\ \A k \in NewRangeKeys :
          ChainsDownTo(db, NewRangeKeys, k,
                       db.mainline_parent_range[MetRange].tail)
    /\ MembersOf(db, {MetRange}) \subseteq MembersOf(db, NewRangeKeys)

\* the statement without the inclusion of a short range: every import that
\* adds ranges above the head of a range chains them down to that head and
\* copies no member
C40_RangesOnlyChainToHeads == AddedAboveAHead => ExtendsAtHead

\* C40: an import that adds ranges above a revision that is the head of a
\* range of _MAINLINE_PARENT_RANGE_LEN members chains the new ranges down to
\* that head through tails and copies none of its members; when the range
\* has fewer members the import includes it: its members are written again
\* as members of the new ranges, which chain down to its tail.
C40_RangesChainOrInclude ==
    AddedAboveAHead =>
        IF db.mainline_parent_range[MetRange].count
                = _MAINLINE_PARENT_RANGE_LEN
        THEN ExtendsAtHead
        ELSE IncludesMetRange

\* an import has included a short range in two new ranges, in a store where
\* an earlier import had chained a range to the head of a full one
C40_Witness ==
    /\ AddedAboveAHead
    /\ db.mainline_parent_range[MetRange].count < _MAINLINE_PARENT_RANGE_LEN
    /\ MembersOf(db, {MetRange}) # {}
    /\ \E k1, k2 \in 1..last.pre_ranges :
          /\ db.mainline_parent_range[k1].count = _MAINLINE_PARENT_RANGE_LEN
          /\ k2 > k1
          /\ db.mainline_parent_range[k2].tail
                = db.mainline_parent_range[k1].head
          /\ MembersOf(db, {k1}) \cap MembersOf(db, {k2}) = {}

\* an import stopped at the head of a full range
MetFullRange ==
    /\ AddedAboveAHead
    /\ db.mainline_parent_range[MetRange].count = _MAINLINE_PARENT_RANGE_LEN
====
